---- MODULE Spec2Model ----
(***************************************************************************)
(* Vector sets (vset.c): one key of the key space, the vector set objects  *)
(* created for it, the controlling (main) thread that runs one command at  *)
(* a time, the detached background threads of VSIM and of VADD ... CAS,    *)
(* and the stream of commands replicated verbatim.                         *)
(*                                                                         *)
(* The proximity graph engine (hnsw.c) is not part of vset.c: its          *)
(* primitives are modelled by their contract (insert / prepare / commit /  *)
(* delete / search), with every result vset.c tests for (a NULL node, a    *)
(* failed commit) left as a nondeterministic input of the calling action.  *)
(***************************************************************************)
EXTENDS Integers, Sequences, FiniteSets, TLC

\* ------------------------------------------------------------------ bounds
MaxCmds == 3        \* module commands (VADD, VREM, VSIM) issued
MaxThreads == 2     \* background operations in flight at once

\* ------------------------------------------------------------ input values
Labels == {"a", "b"}            \* element strings
Vectors == {1, 2}               \* abstract vector contents
Dims == {3, 4}                  \* vector dimensions requested by clients
QuantTypes == {"Q8"}            \* quantization requested by clients
AllQuantTypes == {"Q8", "NOQUANT", "BIN"}   \* every quantization of VADD
QueryVectors == {1, 3}          \* abstract contents of a VSIM query
Counts == {0, 1, 10}            \* COUNT of VSIM (10: none given)
Epsilons == {0, 1, 3, 4}        \* EPSILON of VSIM in halves (4: none given)
ReduceDims == {0, 3}            \* REDUCE of VADD (0: none given)
Matrices == {1, 2}              \* abstract contents of a random matrix

NULL == 0

VARIABLES
    keyType,    \* "empty" | "vset" | "other": what the key holds
    keyObj,     \* address of the vsetObject bound to the key (0 if none)
    objs,       \* heap: sequence of vsetObject records, index = address
    VectorSetTypeNextId,
    threads,    \* background thread slots
    mainPc,     \* "idle" | "wrlock": position of the controlling thread
    pending,    \* what the controlling thread resumes after VectorSetFree
    replicated, \* the command this step replicated verbatim (or NoCmd)
    replica,    \* a replica that has applied every replicated command
    reply,      \* the reply this step delivered to a client (or NoReply)
    crashed,    \* "", or the function in which the process faulted
    ncmds       \* module commands issued so far

vars == <<keyType, keyObj, objs, VectorSetTypeNextId, threads, mainPc,
          pending, replicated, replica, reply, crashed, ncmds>>

\* ------------------------------------------------- RedisModule dictionary
\* A dictionary is a set of [key, node] entries with distinct keys.
DictHas(d, k) == \E e \in d : e.key = k

\* Returns the stored value, or NULL when the key is absent: an entry
\* whose value is NULL cannot be told from a missing one.
DictGet(d, k) ==
    IF DictHas(d, k) THEN (CHOOSE e \in d : e.key = k).node ELSE NULL

\* Inserts only when the key is absent; an existing entry is kept.
DictSet(d, k, n) ==
    IF DictHas(d, k) THEN d ELSE d \cup {[key |-> k, node |-> n]}

DictReplace(d, k, n) ==
    {e \in d : e.key # k} \cup {[key |-> k, node |-> n]}

DictDel(d, k) == {e \in d : e.key # k}

DictSize(d) == Cardinality(d)

\* ------------------------------------------------------ proximity graph
\* An HNSW index: its live nodes [id, value, vec], the last node id given
\* out, and a version that changes with every mutation of the graph.
hnsw_new(dim, quant_type) ==
    [vector_dim |-> dim, quant_type |-> quant_type, nodes |-> {},
     last_id |-> 0, version |-> 0]

hnsw_node_count(h) == Cardinality(h.nodes)

hnsw_has_node(h, id) == \E n \in h.nodes : n.id = id

hnsw_node(h, id) == CHOOSE n \in h.nodes : n.id = id

\* A successful insertion: a fresh node carrying value and vec.
hnsw_insert(h, vec, value) ==
    [h EXCEPT !.nodes = @ \cup {[id |-> h.last_id + 1, value |-> value,
                                 vec |-> vec]},
              !.last_id = @ + 1,
              !.version = @ + 1]

hnsw_delete_node(h, id) ==
    [h EXCEPT !.nodes = {n \in @ : n.id # id}, !.version = @ + 1]

\* ----------------------------------------------------- identity tags
\* A counter that hands out the same tag again.
NextId_Same(id) == id

\* VectorSetTypeNextId++ : the counter after it has given out id. The
\* counter has 64 bits and is never reset, so it does not wrap in the
\* lifetime of a process.
NextId(id) == id + 1

\* --------------------------------------------------------- vsetObject
createVectorSetObject(id, dim, quant_type) ==
    [live |-> TRUE, id |-> id,
     hnsw |-> hnsw_new(dim, quant_type), dict |-> {}, readers |-> 0,
     proj_matrix |-> NULL, proj_input_size |-> 0]

\* What is left at the address of a released object: nothing of it.
vectorSetReleaseObject(o) ==
    [live |-> FALSE, id |-> 0, hnsw |-> hnsw_new(0, ""), dict |-> {},
     readers |-> 0, proj_matrix |-> NULL, proj_input_size |-> 0]

\* ---------------------------------------------------------- projection
\* The vector applyProjection computes from all of the input vector vec
\* with the matrix: another vector than the input.
Project(vec, matrix) == vec + 2 * matrix

\* What a read beyond the end of a buffer yields when it does not fault.
GarbageVec == 9

\* applyProjection(input, proj_matrix, input_dim, output_dim) on an input
\* of dim components and a matrix of rows x input_dim entries, its
\* output then read by the engine for rows components. It reads input_dim
\* components of the input and output_dim rows of the matrix: beyond the
\* end of a smaller buffer the behaviour is undefined.
\*   overread : a read beyond the end of a buffer happens
\*   vec      : the vector the engine stores if it does not fault
applyProjection(input, dim, matrix, rows, input_dim, output_dim) ==
    [overread |-> input_dim > dim \/ output_dim > rows \/ rows > output_dim,
     vec |-> IF input_dim <= dim /\ rows <= output_dim
             THEN Project(input, matrix) ELSE GarbageVec]

\* vectorSetInsert: ok tells whether the engine produced a node.
\* Result: the object afterwards and the return value (1 added, 0 not).
vectorSetInsert(o, vec, val, update, ok) ==
    LET node == DictGet(o.dict, val) IN
    IF node # NULL
    THEN IF update
         THEN LET old_val == hnsw_node(o.hnsw, node).value
                  h1 == hnsw_delete_node(o.hnsw, node)
                  h2 == IF ok THEN hnsw_insert(h1, vec, old_val) ELSE h1
                  nn == IF ok THEN h2.last_id ELSE NULL
              IN [o |-> [o EXCEPT !.hnsw = h2,
                                  !.dict = DictReplace(@, val, nn)],
                  added |-> 0]
         ELSE [o |-> o, added |-> 0]
    ELSE IF ~ok
         THEN [o |-> o, added |-> 0]
         ELSE LET h2 == hnsw_insert(o.hnsw, vec, val)
              IN [o |-> [o EXCEPT !.hnsw = h2,
                                  !.dict = DictSet(@, val, h2.last_id)],
                  added |-> 1]

\* ------------------------------------------------------------- threads
\* A command as replicated: its arguments, and (rmatrix) the matrix the
\* replica draws if running the command creates a projection.
NoCmd ==
    [cmd |-> "none", val |-> "", vec |-> 0, dim |-> 0, reduce_dim |-> 0,
     quant_type |-> "", rmatrix |-> 0]

NoPending == [op |-> "none", obj |-> 0, val |-> ""]

\* What VINFO reports of a set.
NoInfo ==
    [quant_type |-> "", vector_dim |-> 0, size |-> 0, vset_uid |-> 0,
     hnsw_max_node_uid |-> 0]

\* A reply: the command replied to, the kind of reply (or its error),
\* and its payload: labels (items), a number, a vector or a declared
\* length (num), the elements emitted one by one (out), a map of the
\* set's parameters (info).
NoReply ==
    [cmd |-> "none", val |-> "none", items |-> {}, num |-> 0, out |-> <<>>,
     info |-> NoInfo]

\* A replica holds the key's type and, for a vector set, its parameters
\* and its elements with their vectors.
NoReplica ==
    [type |-> "empty", dim |-> 0, quant_type |-> "", m |-> {},
     proj_matrix |-> NULL, proj_input_size |-> 0]

\* The arguments (targ) and the locals of a background thread: of VADD
\* the set, its id, the vector, the label, the prepared context (ic) and
\* the command; of VSIM the set, the query vector, count, epsilon,
\* withscores, the search result (found) and the reply built (out).
NoThread ==
    [kind |-> "none", pc |-> "none", vset |-> 0, vset_id |-> 0, vec |-> 0,
     val |-> "", ic |-> -1, count |-> 0, epsilon |-> 0,
     withscores |-> FALSE, found |-> <<>>, out |-> NoReply,
     argv |-> NoCmd]

FreeSlots == {t \in 1..MaxThreads : threads[t].kind = "none"}

\* The slot a new background thread runs in: the lowest free one.
NewSlot == CHOOSE t \in FreeSlots : \A u \in FreeSlots : t <= u

Init ==
    /\ keyType = "empty"
    /\ keyObj = 0
    /\ objs = <<>>
    /\ VectorSetTypeNextId = 0
    /\ threads = [t \in 1..MaxThreads |-> NoThread]
    /\ mainPc = "idle"
    /\ pending = NoPending
    /\ replicated = NoCmd
    /\ replica = NoReplica
    /\ reply = NoReply
    /\ crashed = ""
    /\ ncmds = 0

\* The process has not been terminated.
Running == crashed = ""

\* A command can start: the controlling thread is between commands.
CanRun == mainPc = "idle" /\ Running /\ ncmds < MaxCmds

\* ------------------------------------------------- replies, replication
Reply(cmd, v) == [NoReply EXCEPT !.cmd = cmd, !.val = v]

\* RedisModule_ReplyWithLongLong.
ReplyWithLongLong(cmd, n) == [Reply(cmd, "INT") EXCEPT !.num = n]

Cmd(cmd, val) == [NoCmd EXCEPT !.cmd = cmd, !.val = val]

\* The elements of a vector set: every label of the map that refers to
\* a live node, with the vector stored in that node.
Elements(o) ==
    {[key |-> e.key, vec |-> hnsw_node(o.hnsw, e.node).vec] :
        e \in {d \in o.dict : hnsw_has_node(o.hnsw, d.node)}}

\* A numbering of the labels, to name the nodes of a replica's graph.
LabelIx == CHOOSE f \in [Labels -> 1..Cardinality(Labels)] :
               \A k, l \in Labels : k # l => f[k] # f[l]

\* ------------------------------------------- VADD on an existing set
\* A check that lets every quantization pass.
QuantMismatch_Never(vset, quant_type) == FALSE

\* The set exists with another quantization than the one asked for.
QuantMismatch(vset, quant_type) == vset.hnsw.quant_type # quant_type

\* A check that lets every dimension pass.
DimMismatch_Never(vset, dim, reduce_dim) == FALSE

\* The vector does not have the dimension of a set without projection,
\* or REDUCE does not name the dimension of a set with projection.
DimMismatch(vset, dim, reduce_dim) ==
    \/ vset.proj_matrix = NULL /\ vset.hnsw.vector_dim # dim
    \/ vset.proj_matrix # NULL /\ vset.hnsw.vector_dim # reduce_dim

\* The error VADD replies for an existing set, "" if it goes on.
VADD_Error_AnyReduce(vset, dim, reduce_dim, quant_type) ==
    IF QuantMismatch(vset, quant_type) THEN "ERR quantization"
    ELSE IF DimMismatch(vset, dim, reduce_dim) THEN "ERR dimension"
    ELSE ""

\* The error VADD replies on an existing set, "" if it goes on.
VADD_Error(vset, dim, reduce_dim, quant_type) ==
    IF QuantMismatch(vset, quant_type) THEN "ERR quantization"
    ELSE IF DimMismatch(vset, dim, reduce_dim) THEN "ERR dimension"
    ELSE IF reduce_dim # 0 /\ vset.proj_matrix = NULL
    THEN "ERR cannot add projection"
    ELSE IF reduce_dim # 0 /\ reduce_dim # vset.hnsw.vector_dim
    THEN "ERR projection dimension"
    ELSE ""

\* The vector VADD inserts into an existing set: projected with the
\* matrix of the set, the dimension of the input given as output_dim.
VADD_Projected(vset, vec, dim) ==
    IF vset.proj_matrix = NULL
    THEN [overread |-> FALSE, vec |-> vec]
    ELSE applyProjection(vec, dim, vset.proj_matrix, vset.hnsw.vector_dim,
                         vset.proj_input_size, dim)

\* The set VADD creates at an empty key, and the vector it inserts:
\* with REDUCE the set has reduce_dim dimensions, a fresh random matrix
\* and the dimension of the input; the vector is projected.
VADD_Create(id, vec, dim, reduce_dim, quant_type, matrix) ==
    LET vset == createVectorSetObject(id, IF reduce_dim # 0 THEN reduce_dim
                                          ELSE dim, quant_type)
    IN IF reduce_dim # 0
       THEN [vset |-> [vset EXCEPT !.proj_matrix = matrix,
                                   !.proj_input_size = dim],
             vec |-> applyProjection(vec, dim, matrix, reduce_dim, dim,
                                     reduce_dim).vec]
       ELSE [vset |-> vset, vec |-> vec]

\* The vector set object a replica holds.
ReplicaObject(r) ==
    [live |-> TRUE, id |-> 0,
     hnsw |-> [vector_dim |-> r.dim, quant_type |-> r.quant_type,
               nodes |-> {[id |-> LabelIx[e.key], value |-> e.key,
                           vec |-> e.vec] : e \in r.m},
               last_id |-> Cardinality(Labels), version |-> 0],
     dict |-> {[key |-> e.key, node |-> LabelIx[e.key]] : e \in r.m},
     readers |-> 0, proj_matrix |-> r.proj_matrix,
     proj_input_size |-> r.proj_input_size]

\* The replica runs the replicated command on the controlling thread of
\* its own process: VADD_RedisCommand without CAS (the context is flagged
\* as replicated), VREM_RedisCommand, or the host's DEL and SET.
ReplicaApply(r, c) ==
    CASE c.cmd = "VADD" ->
           IF r.type = "other" THEN r
           ELSE LET n == VADD_Create(0, c.vec, c.dim, c.reduce_dim,
                                     c.quant_type, c.rmatrix)
                    o == IF r.type = "empty" THEN n.vset
                         ELSE ReplicaObject(r)
                    v == IF r.type = "empty" THEN n.vec
                         ELSE VADD_Projected(o, c.vec, c.dim).vec
                IN IF /\ r.type # "empty"
                      /\ VADD_Error(o, c.dim, c.reduce_dim,
                                    c.quant_type) # ""
                   THEN r
                   ELSE [type |-> "vset", dim |-> o.hnsw.vector_dim,
                         quant_type |-> o.hnsw.quant_type,
                         m |-> Elements(vectorSetInsert(o, v, c.val,
                                                        TRUE, TRUE).o),
                         proj_matrix |-> o.proj_matrix,
                         proj_input_size |-> o.proj_input_size]
      [] c.cmd = "VREM" ->
           IF r.type # "vset" \/ DictGet(ReplicaObject(r).dict, c.val) = NULL
           THEN r
           ELSE IF DictSize(DictDel(ReplicaObject(r).dict, c.val)) = 0
           THEN NoReplica
           ELSE [r EXCEPT !.m = {e \in @ : e.key # c.val}]
      [] c.cmd = "DEL" -> NoReplica
      [] c.cmd = "SET" -> [NoReplica EXCEPT !.type = "other"]
      [] OTHER -> r

\* What a step gives out: the reply r and the replicated command c.
Out(r, c) ==
    /\ reply' = r
    /\ replicated' = c
    /\ replica' = ReplicaApply(replica, c)

\* The command replies and changes nothing else.
ReplyOnly(cmd, v) ==
    /\ Out(Reply(cmd, v), NoCmd)
    /\ UNCHANGED <<keyType, keyObj, objs, VectorSetTypeNextId, threads,
                   mainPc, pending, crashed>>

\* The command delivers the reply r and changes nothing else.
ReplyWith(r) ==
    /\ Out(r, NoCmd)
    /\ UNCHANGED <<keyType, keyObj, objs, VectorSetTypeNextId, threads,
                   mainPc, pending, crashed>>

\* A step of a background thread changes the thread only.
ThreadOnly ==
    /\ Out(NoReply, NoCmd)
    /\ UNCHANGED <<keyType, keyObj, objs, VectorSetTypeNextId, mainPc,
                   pending, crashed, ncmds>>

\* ---------------------------------------------------------------- VADD
\* The synchronous branch of VADD_RedisCommand on the object vset that
\* is (or becomes) the value at address addr.
VADD_Sync(addr, vset, vec, val, ok, argv) ==
    LET r == vectorSetInsert(vset, vec, val, TRUE, ok) IN
    /\ objs' = IF addr > Len(objs) THEN Append(objs, r.o)
               ELSE [objs EXCEPT ![addr] = r.o]
    /\ Out(Reply("VADD", IF r.added = 1 THEN "1" ELSE "0"),
           IF r.added = 1 THEN argv ELSE NoCmd)

\* pthread_create fails: the object after the read lock taken for the
\* operation was released again. A variant that leaves the lock taken
\* comes first.
AbortBlock_KeepsLock(o) == [o EXCEPT !.readers = @ + 1]

\* pthread_rwlock_rdlock, then, pthread_create having failed,
\* pthread_rwlock_unlock and RedisModule_AbortBlock.
AbortBlock(o) == [o EXCEPT !.readers = (@ + 1) - 1]

\* The command could not start its thread: it replies the error with
\* the read lock released and no client blocked.
ThreadNotStarted(cmd) ==
    /\ objs' = [objs EXCEPT ![keyObj] = AbortBlock(@)]
    /\ Out(Reply(cmd, "ERR thread"), NoCmd)
    /\ UNCHANGED <<keyType, keyObj, VectorSetTypeNextId, threads, mainPc,
                   pending, crashed>>

\* A VADD that keeps CAS whatever the context.
CasAllowed_Always(casopt, flagged) == casopt

\* CAS is dropped when the command comes from the replication link, a
\* Lua script or MULTI/EXEC.
CasAllowed(casopt, flagged) == casopt /\ ~flagged

\* A VADD that keeps CAS for a label the set has.
TwoPhase_Updates(vset, val, cas) == cas

\* CAS is dropped for an update: the label has a node in the map.
TwoPhase(vset, val, cas) == cas /\ DictGet(vset.dict, val) = NULL

\* What VADD takes besides its arguments when it projects: the random
\* matrix it draws, the one a replica draws, and whether a read beyond
\* the end of a buffer faults.
NoReduce ==
    [reduce_dim |-> 0, matrix |-> NULL, rmatrix |-> NULL, fault |-> FALSE]

\* VADD key [REDUCE dim] VALUES|FP32 vec val [CAS] [NOQUANT|Q8|BIN]
\*   red     : REDUCE (reduce_dim, 0 if not given) and what projecting
\*             takes, as in NoReduce
\*   casopt  : the CAS option was given
\*   flagged : the context is replicated, a Lua script or MULTI/EXEC
\*   ok      : the engine produces a node if an insertion is attempted
\*   started : pthread_create succeeds if a thread is spawned
VADD_RedisCommand(val, vec, dim, red, quant_type, casopt, flagged, ok, started) ==
    LET argv == [cmd |-> "VADD", val |-> val, vec |-> vec, dim |-> dim,
                 reduce_dim |-> red.reduce_dim, quant_type |-> quant_type,
                 rmatrix |-> red.rmatrix]
        cas0 == CasAllowed(casopt, flagged)
    IN
    /\ CanRun
    /\ ncmds' = ncmds + 1
    /\ CASE keyType = "other" -> ReplyOnly("VADD", "WRONGTYPE")
         [] keyType = "empty" ->
              \* cas = 0: the first insertion is always synchronous.
              /\ LET n == VADD_Create(VectorSetTypeNextId, vec, dim,
                                      red.reduce_dim, quant_type,
                                      red.matrix)
                 IN VADD_Sync(Len(objs) + 1, n.vset, n.vec, val, ok, argv)
              /\ VectorSetTypeNextId' = NextId(VectorSetTypeNextId)
              /\ keyType' = "vset"
              /\ keyObj' = Len(objs) + 1
              /\ UNCHANGED <<threads, mainPc, pending, crashed>>
         [] keyType = "vset" ->
              LET vset == objs[keyObj]
                  cas == TwoPhase(vset, val, cas0)
                  err == VADD_Error(vset, dim, red.reduce_dim, quant_type)
                  p == VADD_Projected(vset, vec, dim)
              IN
              IF err # ""
              THEN ReplyOnly("VADD", err)
              ELSE IF p.overread /\ red.fault
              THEN /\ crashed' = "applyProjection"
                   /\ Out(NoReply, NoCmd)
                   /\ UNCHANGED <<keyType, keyObj, objs,
                                  VectorSetTypeNextId, threads, mainPc,
                                  pending>>
              ELSE IF ~cas
              THEN /\ VADD_Sync(keyObj, vset, p.vec, val, ok, argv)
                   /\ UNCHANGED <<keyType, keyObj, VectorSetTypeNextId,
                                  threads, mainPc, pending, crashed>>
              ELSE IF ~started
              THEN ThreadNotStarted("VADD")
              ELSE /\ FreeSlots # {}
                   /\ objs' = [objs EXCEPT ![keyObj].readers = @ + 1]
                   /\ threads' = [threads EXCEPT ![NewSlot] =
                          [NoThread EXCEPT
                              !.kind = "vadd", !.pc = "prepare",
                              !.vset = keyObj, !.vset_id = vset.id,
                              !.vec = p.vec, !.val = val, !.argv = argv]]
                   /\ Out(NoReply, NoCmd)
                   /\ UNCHANGED <<keyType, keyObj, VectorSetTypeNextId,
                                  mainPc, pending, crashed>>

\* A preparation that links the node into the graph from the thread.
VADD_thread_prepare_Inserts(t) ==
    /\ Running
    /\ threads[t].kind = "vadd" /\ threads[t].pc = "prepare"
    /\ objs' = [objs EXCEPT ![threads[t].vset].hnsw =
                    hnsw_insert(@, threads[t].vec, threads[t].val)]
    /\ threads' = [threads EXCEPT
           ![t].ic = objs[threads[t].vset].hnsw.version,
           ![t].pc = "unlock"]
    /\ Out(NoReply, NoCmd)
    /\ UNCHANGED <<keyType, keyObj, VectorSetTypeNextId, mainPc, pending,
                   crashed, ncmds>>

\* VADD_thread, first step: hnsw_prepare_insert collects the candidates
\* against the graph as it is now; the context remembers its version.
VADD_thread_prepare(t) ==
    /\ Running
    /\ threads[t].kind = "vadd" /\ threads[t].pc = "prepare"
    /\ threads' = [threads EXCEPT
           ![t].ic = objs[threads[t].vset].hnsw.version,
           ![t].pc = "unlock"]
    /\ ThreadOnly

\* A thread that goes on to unblock the client with the lock held.
VADD_thread_unlock_Keeps(t) ==
    /\ Running
    /\ threads[t].kind = "vadd" /\ threads[t].pc = "unlock"
    /\ threads' = [threads EXCEPT ![t].pc = "unblock"]
    /\ ThreadOnly

\* VADD_thread, second step: pthread_rwlock_unlock(&vset->in_use_lock).
VADD_thread_unlock(t) ==
    /\ Running
    /\ threads[t].kind = "vadd" /\ threads[t].pc = "unlock"
    /\ objs' = [objs EXCEPT ![threads[t].vset].readers = @ - 1]
    /\ threads' = [threads EXCEPT ![t].pc = "unblock"]
    /\ Out(NoReply, NoCmd)
    /\ UNCHANGED <<keyType, keyObj, VectorSetTypeNextId, mainPc, pending,
                   crashed, ncmds>>

\* VADD_thread, last step: RedisModule_UnblockClient(bc,targ); the reply
\* callback is now due on the controlling thread.
VADD_thread_unblock(t) ==
    /\ Running
    /\ threads[t].kind = "vadd" /\ threads[t].pc = "unblock"
    /\ threads' = [threads EXCEPT ![t].pc = "reply"]
    /\ ThreadOnly

\* The else-branch of VADD_CASReply: commit the prepared context, or
\* insert from scratch when the commit fails; the node is NULL when the
\* engine fails again. The map is set whatever the node is.
CASCommit(vset, th, commitOk, ok) ==
    LET h2 == IF commitOk \/ ok
              THEN hnsw_insert(vset.hnsw, th.vec, th.val)
              ELSE vset.hnsw
        newnode == IF commitOk \/ ok THEN h2.last_id ELSE NULL
    IN [vset EXCEPT !.hnsw = h2, !.dict = DictSet(@, th.val, newnode)]

\* A reply callback that replicates whatever it decided.
CASReplicate_Always(committed, argv) == argv

\* RedisModule_ReplicateVerbatim is called in the else-branch only.
CASReplicate(committed, argv) == IF committed THEN argv ELSE NoCmd

\* Reply callback of VADD ... CAS, on the controlling thread.
\*   commitOk: hnsw_try_commit_insert returns a node
\*   ok      : the engine produces a node in the fallback hnsw_insert
\*   outcome : what the dereference of vset (NULL after a failed identity
\*             check) at line 291 does in this build: "fault" terminates
\*             the process, "elided" is the build in which the assignment
\*             of NULL was optimised away as unreachable.
VADD_CASReply(t, commitOk, ok, outcome) ==
    LET th == threads[t]
        cur == objs[keyObj]
        isVset == keyType = "vset"
        sameId == isVset /\ cur.id = th.vset_id
        present == isVset /\ DictGet(cur.dict, th.val) # NULL
        discard == /\ threads' = [threads EXCEPT ![t] = NoThread]
                   /\ Out(Reply("VADD_CAS", "1"),
                          CASReplicate(FALSE, th.argv))
                   /\ UNCHANGED <<keyType, keyObj, objs, crashed>>
    IN
    /\ mainPc = "idle" /\ Running
    /\ th.kind = "vadd" /\ th.pc = "reply"
    /\ UNCHANGED <<VectorSetTypeNextId, mainPc, pending, ncmds>>
    /\ IF ~isVset
       THEN discard
       ELSE IF ~sameId /\ outcome = "fault"
       THEN /\ crashed' = "VADD_CASReply"
            /\ Out(NoReply, NoCmd)
            /\ UNCHANGED <<keyType, keyObj, objs, threads>>
       ELSE IF present
       THEN discard
       ELSE /\ threads' = [threads EXCEPT ![t] = NoThread]
            /\ objs' = [objs EXCEPT
                   ![keyObj] = CASCommit(cur, th, commitOk, ok)]
            /\ Out(Reply("VADD_CAS", "1"), CASReplicate(TRUE, th.argv))
            /\ UNCHANGED <<keyType, keyObj, crashed>>

\* ---------------------------------------------------------------- VREM
\* The key is unbound and its value handed to VectorSetFree, which the
\* controlling thread enters next; op and val say how it goes on after.
DeleteKey(op, val) ==
    /\ keyObj' = 0
    /\ mainPc' = "wrlock"
    /\ pending' = [op |-> op, obj |-> keyObj, val |-> val]
    /\ Out(NoReply, NoCmd)

VREM_RedisCommand(element) ==
    /\ CanRun
    /\ ncmds' = ncmds + 1
    /\ CASE keyType = "empty" -> ReplyOnly("VREM", "0")
         [] keyType = "other" -> ReplyOnly("VREM", "WRONGTYPE")
         [] keyType = "vset" ->
              LET vset == objs[keyObj]
                  node == DictGet(vset.dict, element)
                  dict2 == DictDel(vset.dict, element)
              IN
              IF node = NULL
              THEN ReplyOnly("VREM", "0")
              ELSE /\ objs' = [objs EXCEPT
                          ![keyObj].dict = dict2,
                          ![keyObj].hnsw = hnsw_delete_node(@, node)]
                   /\ UNCHANGED <<VectorSetTypeNextId, threads, crashed>>
                   /\ IF DictSize(dict2) = 0
                      THEN \* RedisModule_DeleteKey, then reply and
                           \* propagate once VectorSetFree has returned.
                           /\ keyType' = "empty"
                           /\ DeleteKey("VREM", element)
                      ELSE /\ Out(Reply("VREM", "1"), Cmd("VREM", element))
                           /\ UNCHANGED <<keyType, keyObj, mainPc, pending>>

\* A lock that does not make the writer wait for its readers.
WrlockGranted_NoWait(o) == TRUE

\* pthread_rwlock_wrlock returns once no reader holds the lock.
WrlockGranted(o) == o.readers = 0

\* VectorSetFree: the write lock is taken, released at once, and the
\* object is released. The command that caused the destruction then
\* completes.
VectorSetFree ==
    /\ mainPc = "wrlock" /\ Running
    /\ WrlockGranted(objs[pending.obj])
    /\ objs' = [objs EXCEPT ![pending.obj] = vectorSetReleaseObject(@)]
    /\ mainPc' = "idle"
    /\ pending' = NoPending
    /\ Out(Reply(pending.op, "1"), Cmd(pending.op, pending.val))
    /\ UNCHANGED <<keyType, keyObj, VectorSetTypeNextId, threads, crashed,
                   ncmds>>

\* Key deletion by the host (DEL, expire, eviction): the type's free
\* method is called on the controlling thread. The host's own commands
\* are not counted in ncmds.
HostDEL ==
    /\ mainPc = "idle" /\ Running
    /\ keyType # "empty"
    /\ keyType' = "empty"
    /\ UNCHANGED <<VectorSetTypeNextId, threads, crashed, objs, ncmds>>
    /\ IF keyType = "vset"
       THEN DeleteKey("DEL", "")
       ELSE /\ keyObj' = 0
            /\ Out(Reply("DEL", "1"), Cmd("DEL", ""))
            /\ UNCHANGED <<mainPc, pending>>

\* Overwrite by the host with a value of another type (SET).
HostSET ==
    /\ mainPc = "idle" /\ Running
    /\ keyType' = "other"
    /\ UNCHANGED <<VectorSetTypeNextId, threads, crashed, objs, ncmds>>
    /\ IF keyType = "vset"
       THEN DeleteKey("SET", "")
       ELSE /\ keyObj' = 0
            /\ Out(Reply("SET", "1"), Cmd("SET", ""))
            /\ UNCHANGED <<mainPc, pending>>

\* ---------------------------------------------------------------- VSIM
\* Distances and epsilon are counted in halves (0 .. 4 for 0.0 .. 2.0),
\* scores in quarters (0 .. 4 for 0.0 .. 1.0).
VSET_DEFAULT_COUNT == 10
VSET_DEFAULT_SEARCH_EF == 100
DefaultEpsilon == 4

Min(a, b) == IF a < b THEN a ELSE b

\* The distance the engine computes between a query and a stored vector.
Distance(q, v) == Min(4, IF q > v THEN 2 * (q - v) ELSE 2 * (v - q))

\* Node m comes before node n in a search for vec.
Nearer(vec, m, n) ==
    \/ Distance(vec, m.vec) < Distance(vec, n.vec)
    \/ Distance(vec, m.vec) = Distance(vec, n.vec) /\ m.id < n.id

\* hnsw_search: references to the (at most ef) nodes nearest to vec with
\* their distances, by increasing distance.
hnsw_search(h, vec, ef) ==
    [i \in 1..Min(Cardinality(h.nodes), ef) |->
        LET n == CHOOSE n \in h.nodes :
                    Cardinality({m \in h.nodes : Nearer(vec, m, n)}) = i - 1
        IN [id |-> n.id, dist |-> Distance(vec, n.vec)]]

\* The elements of a reply: a string, or a double.
StringToken(str) == [t |-> "string", s |-> str, d |-> 0]

DoubleToken(d) == [t |-> "double", s |-> "", d |-> d]

\* The reply loop of VSIM_execute from index i on (the first index is 1),
\* values[i] being what neighbors[i]->value reads; acc is what was
\* emitted so far and the running arraylen.
RECURSIVE VSIM_loop(_, _, _, _, _, _, _)
VSIM_loop(values, distances, i, count, epsilon, withscores, acc) ==
    IF ~(i <= Len(distances) /\ i <= count) THEN acc
    ELSE IF distances[i] > epsilon THEN acc
    ELSE VSIM_loop(values, distances, i + 1, count, epsilon, withscores,
            [out |-> acc.out \o <<StringToken(values[i])>>
                        \o (IF withscores
                            THEN <<DoubleToken(4 - distances[i])>>
                            ELSE <<>>),
             arraylen |-> acc.arraylen + 1])

\* The exploration factor VSIM_execute searches with.
SearchEf(count, ef) ==
    LET ef1 == IF ef = 0 THEN VSET_DEFAULT_SEARCH_EF ELSE ef
    IN IF count > ef1 THEN count ELSE ef1

\* A reply loop that does not look at epsilon.
VSIM_execute_NoEpsilon(values, distances, count, epsilon, withscores) ==
    LET r == VSIM_loop(values, distances, 1, count, 4, withscores,
                       [out |-> <<>>, arraylen |-> 0])
    IN [Reply("VSIM", IF withscores THEN "MAP" ELSE "ARRAY") EXCEPT
           !.out = r.out, !.num = r.arraylen]

\* The reply VSIM_execute builds from a search result: a map or an array
\* of postponed length, the elements, and the length set at the end.
VSIM_execute(values, distances, count, epsilon, withscores) ==
    LET r == VSIM_loop(values, distances, 1, count, epsilon, withscores,
                       [out |-> <<>>, arraylen |-> 0])
    IN [Reply("VSIM", IF withscores THEN "MAP" ELSE "ARRAY") EXCEPT
           !.out = r.out, !.num = r.arraylen]

\* What neighbors[i]->value reads for every node of a search result: the
\* label of the node, or junk where the node is no longer in the graph.
NodeValues(h, found, junk) ==
    [i \in 1..Len(found) |->
        IF hnsw_has_node(h, found[i].id)
        THEN hnsw_node(h, found[i].id).value ELSE junk]

Distances(found) == [i \in 1..Len(found) |-> found[i].dist]

\* The query VSIM searches with and the dimension it goes on with. An
\* ELE query is the vector of the node, of the dimension of the index. A
\* raw query of another dimension than the index, on a set with
\* projection, is projected with the dimension of the query given as
\* output_dim, and dim is set to the dimension of the index whatever the
\* query was.
VSIM_Query(vset, qtype, node, vec, dim) ==
    IF qtype = "ELE"
    THEN [overread |-> FALSE, dim |-> vset.hnsw.vector_dim,
          vec |-> hnsw_node(vset.hnsw, node).vec]
    ELSE IF vset.proj_matrix # NULL /\ dim # vset.hnsw.vector_dim
    THEN LET p == applyProjection(vec, dim, vset.proj_matrix,
                                  vset.hnsw.vector_dim,
                                  vset.proj_input_size, dim)
         IN [overread |-> p.overread, dim |-> vset.hnsw.vector_dim,
             vec |-> p.vec]
    ELSE [overread |-> FALSE, dim |-> dim, vec |-> vec]

\* VSIM key ELE ele | VALUES vec [WITHSCORES] [COUNT count] [EPSILON e]
\*   qtype   : "ELE" or "VALUES" (vec, a vector of dim components)
\*   flagged : the context is a Lua script or MULTI/EXEC
\*   started : pthread_create succeeds if a thread is spawned
VSIM_RedisCommand(qtype, ele, vec, dim, count, epsilon, withscores, flagged, started) ==
    /\ CanRun
    /\ ncmds' = ncmds + 1
    /\ \E fault \in IF /\ keyType = "vset"
                       /\ objs[keyObj].proj_matrix # NULL
                       /\ qtype # "ELE"
                    THEN BOOLEAN ELSE {FALSE} :
       CASE keyType = "empty" -> ReplyOnly("VSIM", "EMPTY_ARRAY")
         [] keyType = "other" -> ReplyOnly("VSIM", "WRONGTYPE")
         [] keyType = "vset" ->
              LET vset == objs[keyObj]
                  node == DictGet(vset.dict, ele)
                  q == VSIM_Query(vset, qtype, node, vec, dim)
                  qdim == q.dim
                  qvec == q.vec
                  found == hnsw_search(vset.hnsw, qvec, SearchEf(count, 0))
              IN
              IF qtype = "ELE" /\ node = NULL
              THEN ReplyOnly("VSIM", "ERR element not found in set")
              ELSE IF q.overread /\ fault
              THEN \* The read beyond the matrix or the vector faults.
                   /\ crashed' = "applyProjection"
                   /\ Out(NoReply, NoCmd)
                   /\ UNCHANGED <<keyType, keyObj, objs,
                                  VectorSetTypeNextId, threads, mainPc,
                                  pending>>
              ELSE IF qdim # vset.hnsw.vector_dim
              THEN ReplyOnly("VSIM", "ERR dimension")
              ELSE IF count <= 0
              THEN ReplyOnly("VSIM", "ERR invalid COUNT")
              ELSE IF epsilon <= 0
              THEN ReplyOnly("VSIM", "ERR invalid EPSILON")
              ELSE IF flagged
              THEN \* VSIM_execute on the controlling thread.
                   ReplyWith(VSIM_execute(NodeValues(vset.hnsw, found, ""),
                                          Distances(found), count, epsilon,
                                          withscores))
              ELSE IF ~started
              THEN ThreadNotStarted("VSIM")
              ELSE /\ FreeSlots # {}
                   /\ objs' = [objs EXCEPT ![keyObj].readers = @ + 1]
                   /\ threads' = [threads EXCEPT ![NewSlot] =
                          [NoThread EXCEPT !.kind = "vsim",
                                           !.pc = "search",
                                           !.vset = keyObj,
                                           !.vec = qvec,
                                           !.count = count,
                                           !.epsilon = epsilon,
                                           !.withscores = withscores]]
                   /\ Out(NoReply, NoCmd)
                   /\ UNCHANGED <<keyType, keyObj, VectorSetTypeNextId,
                                  mainPc, pending, crashed>>

\* VSIM_thread / VSIM_execute, first step: the search, between
\* hnsw_acquire_read_slot and hnsw_release_read_slot.
VSIM_thread_search(t) ==
    /\ Running
    /\ threads[t].kind = "vsim" /\ threads[t].pc = "search"
    /\ threads' = [threads EXCEPT
           ![t].found = hnsw_search(objs[threads[t].vset].hnsw,
                                    threads[t].vec,
                                    SearchEf(threads[t].count, 0)),
           ![t].pc = "format"]
    /\ ThreadOnly

\* VSIM_execute, second step: the reply is built from the nodes found,
\* after the read slot was released. A node deleted in between is a
\* dangling reference where the loop reads its value:
\*   outcome : "fault" terminates the process, "garbage" reads some
\*             bytes (the string junk) in place of a value.
VSIM_thread_format(t, outcome, junk) ==
    LET th == threads[t]
        h == objs[th.vset].hnsw
        r == VSIM_execute(NodeValues(h, th.found, junk), Distances(th.found),
                          th.count, th.epsilon, th.withscores)
        dangling == \E i \in 1..r.num : ~hnsw_has_node(h, th.found[i].id)
    IN
    /\ Running
    /\ th.kind = "vsim" /\ th.pc = "format"
    /\ Out(NoReply, NoCmd)
    /\ UNCHANGED <<keyType, keyObj, objs, VectorSetTypeNextId, mainPc,
                   pending, ncmds>>
    /\ IF dangling /\ outcome = "fault"
       THEN crashed' = "VSIM_execute" /\ UNCHANGED threads
       ELSE /\ crashed' = crashed
            /\ threads' = [threads EXCEPT
                   ![t].out = r,
                   ![t].found = <<>>,
                   ![t].pc = "unlock"]

\* A search thread that goes on without releasing the lock.
VSIM_thread_unlock_Keeps(t) ==
    /\ Running
    /\ threads[t].kind = "vsim" /\ threads[t].pc = "unlock"
    /\ threads' = [threads EXCEPT ![t].pc = "unblock"]
    /\ ThreadOnly

\* VSIM_thread: pthread_rwlock_unlock(&vset->in_use_lock).
VSIM_thread_unlock(t) ==
    /\ Running
    /\ threads[t].kind = "vsim" /\ threads[t].pc = "unlock"
    /\ objs' = [objs EXCEPT ![threads[t].vset].readers = @ - 1]
    /\ threads' = [threads EXCEPT ![t].pc = "unblock"]
    /\ Out(NoReply, NoCmd)
    /\ UNCHANGED <<keyType, keyObj, VectorSetTypeNextId, mainPc, pending,
                   crashed, ncmds>>

\* VSIM_thread: RedisModule_UnblockClient(bc,NULL).
VSIM_thread_unblock(t) ==
    /\ Running
    /\ threads[t].kind = "vsim" /\ threads[t].pc = "unblock"
    /\ threads' = [threads EXCEPT ![t].pc = "reply"]
    /\ ThreadOnly

\* The host delivers the reply accumulated by the thread (there is no
\* reply callback: RedisModule_BlockClient(ctx,NULL,...)).
VSIM_Reply(t) ==
    /\ mainPc = "idle" /\ Running
    /\ threads[t].kind = "vsim" /\ threads[t].pc = "reply"
    /\ Out(threads[t].out, NoCmd)
    /\ threads' = [threads EXCEPT ![t] = NoThread]
    /\ UNCHANGED <<keyType, keyObj, objs, VectorSetTypeNextId, mainPc,
                   pending, crashed, ncmds>>

\* ------------------------------------------------------- read commands
\* Each read command opens the key, looks at its type and replies; the
\* reply is a function of the state.

\* VDIM key
VDIM_Reply ==
    CASE keyType = "empty" -> Reply("VDIM", "ERR key does not exist")
      [] keyType = "other" -> Reply("VDIM", "WRONGTYPE")
      [] keyType = "vset" ->
           ReplyWithLongLong("VDIM", objs[keyObj].hnsw.vector_dim)

VDIM_RedisCommand ==
    /\ CanRun
    /\ ncmds' = ncmds + 1
    /\ ReplyWith(VDIM_Reply)

\* A VCARD that takes a missing key for an error.
VCARD_Reply_KeyError ==
    CASE keyType = "empty" -> Reply("VCARD", "ERR key does not exist")
      [] keyType = "other" -> Reply("VCARD", "WRONGTYPE")
      [] keyType = "vset" ->
           ReplyWithLongLong("VCARD", hnsw_node_count(objs[keyObj].hnsw))

\* VCARD key: the node count of the graph.
VCARD_Reply ==
    CASE keyType = "empty" -> ReplyWithLongLong("VCARD", 0)
      [] keyType = "other" -> Reply("VCARD", "WRONGTYPE")
      [] keyType = "vset" ->
           ReplyWithLongLong("VCARD", hnsw_node_count(objs[keyObj].hnsw))

VCARD_RedisCommand ==
    /\ CanRun
    /\ ncmds' = ncmds + 1
    /\ ReplyWith(VCARD_Reply)

\* VEMB key element: the vector of the node the map has for the element,
\* or null.
VEMB_Reply(element) ==
    CASE keyType = "empty" -> Reply("VEMB", "NULL")
      [] keyType = "other" -> Reply("VEMB", "WRONGTYPE")
      [] keyType = "vset" ->
           LET vset == objs[keyObj]
               node == DictGet(vset.dict, element)
           IN IF node = NULL THEN Reply("VEMB", "NULL")
              ELSE [Reply("VEMB", "VECTOR") EXCEPT
                       !.num = hnsw_node(vset.hnsw, node).vec]

VEMB_RedisCommand(element) ==
    /\ CanRun
    /\ ncmds' = ncmds + 1
    /\ ReplyWith(VEMB_Reply(element))

\* The labels of the nodes a node is linked to. In graphs as small as
\* the ones here every node is a neighbour of every other node.
hnsw_neighbors(h, id) == {n.value : n \in {m \in h.nodes : m.id # id}}

\* A VLINKS that takes a label the set does not have for an error.
VLINKS_Reply_NotFound(element) ==
    CASE keyType = "empty" -> Reply("VLINKS", "NULL")
      [] keyType = "other" -> Reply("VLINKS", "WRONGTYPE")
      [] keyType = "vset" ->
           LET vset == objs[keyObj]
               node == DictGet(vset.dict, element)
           IN IF node = NULL
              THEN Reply("VLINKS", "ERR element not found in set")
              ELSE [Reply("VLINKS", "ARRAY") EXCEPT
                       !.items = hnsw_neighbors(vset.hnsw, node)]

\* VLINKS key element
VLINKS_Reply(element) ==
    CASE keyType = "empty" -> Reply("VLINKS", "NULL")
      [] keyType = "other" -> Reply("VLINKS", "WRONGTYPE")
      [] keyType = "vset" ->
           LET vset == objs[keyObj]
               node == DictGet(vset.dict, element)
           IN IF node = NULL THEN Reply("VLINKS", "NULL")
              ELSE [Reply("VLINKS", "ARRAY") EXCEPT
                       !.items = hnsw_neighbors(vset.hnsw, node)]

VLINKS_RedisCommand(element) ==
    /\ CanRun
    /\ ncmds' = ncmds + 1
    /\ ReplyWith(VLINKS_Reply(element))

\* VINFO key
VINFO_Reply ==
    CASE keyType = "empty" -> Reply("VINFO", "NULL_ARRAY")
      [] keyType = "other" -> Reply("VINFO", "WRONGTYPE")
      [] keyType = "vset" ->
           LET vset == objs[keyObj] IN
           [Reply("VINFO", "MAP") EXCEPT !.info =
               [quant_type |-> vset.hnsw.quant_type,
                vector_dim |-> vset.hnsw.vector_dim,
                size |-> hnsw_node_count(vset.hnsw),
                vset_uid |-> vset.id,
                hnsw_max_node_uid |-> vset.hnsw.last_id]]

VINFO_RedisCommand ==
    /\ CanRun
    /\ ncmds' = ncmds + 1
    /\ ReplyWith(VINFO_Reply)

\* ----------------------------------------------------------- RDB format
\* What the host writes to and reads from an RDB stream: unsigned
\* integers and strings, a string by its text (s) or, for a binary
\* buffer, by its content (n), with its length in bytes (len).
SaveUnsigned(n) == [t |-> "unsigned", n |-> n, s |-> "", len |-> 0]

SaveString(str) == [t |-> "string", n |-> 0, s |-> str, len |-> 0]

SaveStringBuffer(data, len) == [t |-> "string", n |-> data, s |-> "", len |-> len]

\* The next value of the stream io at position c; past its end the
\* host's read fails.
At(io, c) == IF c <= Len(io) THEN io[c] ELSE [t |-> "eof", n |-> 0, s |-> "", len |-> 0]

\* A failed read, or a read of another kind of value, gives zero.
LoadUnsigned(tok) == IF tok.t = "unsigned" THEN tok.n ELSE 0

LoadString(tok) == IF tok.t = "string" THEN tok.s ELSE ""

LoadStringBuffer(tok) == IF tok.t = "string" THEN [data |-> tok.n, len |-> tok.len] ELSE [data |-> 0, len |-> 0]

\* The numbers of the quantizations, as hnsw->quant_type holds them.
HNSW_QUANT_NONE == 0
HNSW_QUANT_Q8 == 1
HNSW_QUANT_BIN == 2

QuantCode(quant_type) ==
    CASE quant_type = "NOQUANT" -> HNSW_QUANT_NONE
      [] quant_type = "Q8" -> HNSW_QUANT_Q8
      [] quant_type = "BIN" -> HNSW_QUANT_BIN
      [] OTHER -> 3

QuantName(code) ==
    CASE code = HNSW_QUANT_NONE -> "NOQUANT"
      [] code = HNSW_QUANT_Q8 -> "Q8"
      [] code = HNSW_QUANT_BIN -> "BIN"
      [] OTHER -> ""

\* The bytes a stored vector takes: four a component unquantized, one
\* with Q8, one bit (in words of 64) with BIN.
hnsw_quants_bytes(h) ==
    CASE h.quant_type = "NOQUANT" -> 4 * h.vector_dim
      [] h.quant_type = "Q8" -> h.vector_dim
      [] h.quant_type = "BIN" -> ((h.vector_dim + 63) \div 64) * 8
      [] OTHER -> 0

\* The nodes of the graph from hnsw->head on: the newest first.
RECURSIVE hnsw_list(_)
hnsw_list(nodes) ==
    IF nodes = {} THEN <<>>
    ELSE LET head == CHOOSE n \in nodes : \A m \in nodes : m.id <= n.id
         IN <<head>> \o hnsw_list(nodes \ {head})

\* A node as the engine serializes it: its vector bytes and the
\* parameters the engine needs to put the node back (here its id).
hnsw_serialize_node(h, node) ==
    [vector |-> node.vec, vector_size |-> hnsw_quants_bytes(h),
     params_count |-> 1, params |-> <<node.id>>]

\* The engine puts a serialized node into the graph.
hnsw_insert_serialized(h, vector, params, value) ==
    [h EXCEPT !.nodes = @ \cup {[id |-> params[1], value |-> value,
                                 vec |-> vector]},
              !.last_id = IF params[1] > @ THEN params[1] ELSE @]

\* The values VectorSetRdbSave writes for the nodes of list.
RECURSIVE SaveNodes(_, _)
SaveNodes(h, list) ==
    IF list = <<>> THEN <<>>
    ELSE LET node == Head(list)
             sn == hnsw_serialize_node(h, node)
         IN <<SaveString(node.value),
              SaveStringBuffer(sn.vector, sn.vector_size),
              SaveUnsigned(sn.params_count)>>
            \o [j \in 1..sn.params_count |-> SaveUnsigned(sn.params[j])]
            \o SaveNodes(h, Tail(list))

\* VectorSetRdbSave: the stream written for the object vset.
VectorSetRdbSave(vset) ==
    <<SaveUnsigned(vset.hnsw.vector_dim),
      SaveUnsigned(hnsw_node_count(vset.hnsw)),
      SaveUnsigned(QuantCode(vset.hnsw.quant_type))>>
    \o (IF vset.proj_matrix # NULL
        THEN LET input_dim == vset.proj_input_size
                 output_dim == vset.hnsw.vector_dim
             IN <<SaveUnsigned(1), SaveUnsigned(input_dim),
                  SaveStringBuffer(vset.proj_matrix,
                                   4 * input_dim * output_dim)>>
        ELSE <<SaveUnsigned(0)>>)
    \o SaveNodes(vset.hnsw, hnsw_list(vset.hnsw.nodes))

\* A check that lets a vector of every length pass.
VectorLenMismatch_Never(vset, vector_len) == FALSE

\* The vector read does not have the bytes a vector of the set takes.
VectorLenMismatch(vset, vector_len) == vector_len # hnsw_quants_bytes(vset.hnsw)

\* The loop of VectorSetRdbLoad over the elements still to read, the
\* k-th node next at position c of the stream.
\*   returned : the function returns vset (it returns NULL otherwise)
\*   vset     : the object as built so far
\*   read     : the values read from the stream
\*   nodes    : the nodes put into the graph
RECURSIVE VectorSetRdbLoad_loop(_, _, _, _, _, _)
VectorSetRdbLoad_loop(io, c, elements, k, vset, rejectAt) ==
    IF elements = 0
    THEN [returned |-> TRUE, vset |-> vset, read |-> c - 1, nodes |-> k - 1]
    ELSE LET ele == LoadString(At(io, c))
             vector == LoadStringBuffer(At(io, c + 1))
             params_count == LoadUnsigned(At(io, c + 2))
             params == [j \in 1..params_count |->
                           LoadUnsigned(At(io, c + 2 + j))]
         IN IF VectorLenMismatch(vset, vector.len)
            THEN [returned |-> FALSE, vset |-> vset, read |-> c + 1,
                  nodes |-> k - 1]
            ELSE IF k = rejectAt \/ params_count = 0
            THEN [returned |-> FALSE, vset |-> vset,
                  read |-> c + 2 + params_count, nodes |-> k - 1]
            ELSE LET h == hnsw_insert_serialized(vset.hnsw, vector.data,
                                                 params, ele)
                 IN VectorSetRdbLoad_loop(io, c + 3 + params_count,
                        elements - 1, k + 1,
                        [vset EXCEPT !.hnsw = h,
                                     !.dict = DictSet(@, ele, params[1])],
                        rejectAt)

\* VectorSetRdbLoad on the stream io written with encoding version
\* encver; id is the next object id, rejectAt the node (0: none) the
\* engine does not take.
\*   created : createVectorSetObject was called
VectorSetRdbLoad(io, encver, id, rejectAt) ==
    IF encver # 0
    THEN [returned |-> FALSE, created |-> FALSE,
          vset |-> createVectorSetObject(id, 0, ""), read |-> 0,
          nodes |-> 0]
    ELSE LET dim == LoadUnsigned(At(io, 1))
             elements == LoadUnsigned(At(io, 2))
             quant_type == LoadUnsigned(At(io, 3))
             vset == createVectorSetObject(id, dim, QuantName(quant_type))
             has_projection == LoadUnsigned(At(io, 4))
             input_dim == LoadUnsigned(At(io, 5))
             matrix_blob == LoadStringBuffer(At(io, 6))
             r == IF has_projection # 0
                  THEN VectorSetRdbLoad_loop(io, 7, elements, 1,
                           [vset EXCEPT !.proj_matrix = matrix_blob.data,
                                        !.proj_input_size = input_dim],
                           rejectAt)
                  ELSE VectorSetRdbLoad_loop(io, 5, elements, 1, vset,
                                             rejectAt)
         IN [returned |-> r.returned, created |-> TRUE, vset |-> r.vset,
             read |-> r.read, nodes |-> r.nodes]

\* The stream io with the vector of its k-th node (0: none) a byte
\* longer than written.
Corrupt(io, k) ==
    LET first == IF LoadUnsigned(At(io, 4)) # 0 THEN 7 ELSE 5
        at == first + 4 * (k - 1) + 1
    IN IF k = 0 \/ at > Len(io) THEN io
       ELSE [io EXCEPT ![at].len = @ + 1]

\* The host saves the data set and loads it again (a restart, DEBUG
\* RELOAD): it writes the vector set of the key with VectorSetRdbSave,
\* frees it, and reads the stream with VectorSetRdbLoad. The object
\* returned becomes the value of the key; if none is returned the host
\* gives up loading and terminates.
\*   encver    : the encoding version the stream is marked with
\*   corruptAt : the node whose vector the stream holds damaged
\*   rejectAt  : the node the engine rejects
RdbReload(encver, corruptAt, rejectAt) ==
    /\ CanRun
    /\ keyType = "vset"
    /\ WrlockGranted(objs[keyObj])
    /\ ncmds' = ncmds + 1
    /\ LET vset == objs[keyObj]
           io == Corrupt(VectorSetRdbSave(vset), corruptAt)
           r == VectorSetRdbLoad(io, encver, VectorSetTypeNextId, rejectAt)
           freed == [objs EXCEPT ![keyObj] = vectorSetReleaseObject(vset)]
       IN /\ objs' = IF r.created THEN Append(freed, r.vset) ELSE freed
          /\ VectorSetTypeNextId' = IF r.created
                                    THEN NextId(VectorSetTypeNextId)
                                    ELSE VectorSetTypeNextId
          /\ keyType' = IF r.returned THEN "vset" ELSE "empty"
          /\ keyObj' = IF r.returned THEN Len(objs) + 1 ELSE 0
          /\ crashed' = IF r.returned THEN crashed ELSE "rdbLoad"
          /\ Out(Reply("RELOAD", IF r.returned THEN "OK" ELSE "ERR"), NoCmd)
    /\ UNCHANGED <<threads, mainPc, pending>>

\* ---------------------------------------------------------- the system
Threads == 1..MaxThreads

\* Inputs that cannot matter are not enumerated: the context flags are
\* looked at to drop CAS only, and a thread is started on the threaded
\* paths only. VSIM is asked with no option and, for VALUES, with one
\* query; SeqNext asks it with every option and every query.
Next ==
    \/ \E val \in Labels, vec \in Vectors, dim \in Dims,
          quant_type \in QuantTypes, casopt \in BOOLEAN, ok \in BOOLEAN :
          \E flagged \in IF casopt THEN BOOLEAN ELSE {FALSE} :
             \E started \in IF casopt /\ ~flagged THEN BOOLEAN ELSE {TRUE} :
                VADD_RedisCommand(val, vec, dim, NoReduce, quant_type, casopt,
                                  flagged, ok, started)
    \/ \E t \in Threads : VADD_thread_prepare(t)
    \/ \E t \in Threads : VADD_thread_unlock(t)
    \/ \E t \in Threads : VADD_thread_unblock(t)
    \/ \E t \in Threads, commitOk \in BOOLEAN, ok \in BOOLEAN,
          outcome \in {"fault", "elided"} :
          VADD_CASReply(t, commitOk, ok, outcome)
    \/ \E element \in Labels : VREM_RedisCommand(element)
    \/ VectorSetFree
    \/ HostDEL
    \/ HostSET
    \/ \E qtype \in {"ELE", "VALUES"}, flagged \in BOOLEAN :
          \E ele \in IF qtype = "ELE" THEN Labels ELSE {""},
             vec \in IF qtype = "ELE" THEN {0} ELSE {1},
             dim \in IF qtype = "ELE" THEN {0} ELSE Dims,
             started \in IF flagged THEN {TRUE} ELSE BOOLEAN :
             VSIM_RedisCommand(qtype, ele, vec, dim, VSET_DEFAULT_COUNT,
                               DefaultEpsilon, FALSE, flagged, started)
    \/ \E t \in Threads : VSIM_thread_search(t)
    \/ \E t \in Threads, outcome \in {"fault", "garbage"},
          junk \in Labels :
          VSIM_thread_format(t, outcome, junk)
    \/ \E t \in Threads : VSIM_thread_unlock(t)
    \/ \E t \in Threads : VSIM_thread_unblock(t)
    \/ \E t \in Threads : VSIM_Reply(t)

Spec == Init /\ [][Next]_vars

\* The steps of the background thread in slot t.
ThreadStep(t) ==
    \/ VADD_thread_prepare(t)
    \/ VADD_thread_unlock(t)
    \/ VADD_thread_unblock(t)
    \/ VSIM_thread_search(t)
    \/ \E outcome \in {"fault", "garbage"}, junk \in Labels :
          VSIM_thread_format(t, outcome, junk)
    \/ VSIM_thread_unlock(t)
    \/ VSIM_thread_unblock(t)

\* Fair scheduling: a background thread that can run does run, and the
\* controlling thread blocked in pthread_rwlock_wrlock gets the lock once
\* it stays available.
FairSpec ==
    /\ Spec
    /\ \A t \in Threads : WF_vars(ThreadStep(t))
    /\ WF_vars(VectorSetFree)

\* The commands one after the other on the controlling thread, none of
\* them threaded (CAS is not asked for, VSIM runs in a script or in
\* MULTI/EXEC), with every quantization and every read command.
SeqNext ==
    \/ \E val \in Labels, vec \in Vectors, dim \in Dims,
          quant_type \in AllQuantTypes, ok \in BOOLEAN :
          VADD_RedisCommand(val, vec, dim, NoReduce, quant_type, FALSE, FALSE, ok, TRUE)
    \/ \E element \in Labels : VREM_RedisCommand(element)
    \/ VectorSetFree
    \/ HostDEL
    \/ HostSET
    \/ \E qtype \in {"ELE", "VALUES"} :
          \E ele \in IF qtype = "ELE" THEN Labels ELSE {""},
             vec \in IF qtype = "ELE" THEN {0} ELSE QueryVectors,
             dim \in IF qtype = "ELE" THEN {0} ELSE Dims :
             VSIM_RedisCommand(qtype, ele, vec, dim, VSET_DEFAULT_COUNT,
                               DefaultEpsilon, FALSE, TRUE, TRUE)
    \/ VDIM_RedisCommand
    \/ VCARD_RedisCommand
    \/ \E element \in Labels : VEMB_RedisCommand(element)
    \/ \E element \in Labels : VLINKS_RedisCommand(element)
    \/ VINFO_RedisCommand

SeqSpec == Init /\ [][SeqNext]_vars

\* The dimension of the sets VSIM is asked on in SimNext.
SimDim == 3

\* VSIM with every option, every query and every dimension, run in a
\* script or in MULTI/EXEC on sets of one dimension and quantization
\* that VADD and VREM fill and empty.
SimNext ==
    \/ \E val \in Labels, vec \in Vectors, ok \in BOOLEAN :
          VADD_RedisCommand(val, vec, SimDim, NoReduce, "Q8", FALSE, FALSE, ok, TRUE)
    \/ \E element \in Labels : VREM_RedisCommand(element)
    \/ VectorSetFree
    \/ \E qtype \in {"ELE", "VALUES"}, count \in Counts,
          epsilon \in Epsilons, withscores \in BOOLEAN :
          \E ele \in IF qtype = "ELE" THEN Labels ELSE {""},
             vec \in IF qtype = "ELE" THEN {0} ELSE QueryVectors,
             dim \in IF qtype = "ELE" THEN {0} ELSE Dims :
             VSIM_RedisCommand(qtype, ele, vec, dim, count, epsilon,
                               withscores, TRUE, TRUE)

SimSpec == Init /\ [][SimNext]_vars

\* The dimension of the vectors added in IdNext.
IdDim == 3

\* Sets of one dimension and quantization created by VADD on a key
\* that does not exist and by loading, filled by synchronous and
\* two-phase VADD, emptied by VREM and deleted by the host while the
\* background threads run.
IdNext ==
    \/ \E val \in Labels, casopt \in BOOLEAN, ok \in BOOLEAN :
          VADD_RedisCommand(val, 1, IdDim, NoReduce, "Q8", casopt, FALSE, ok, TRUE)
    \/ \E t \in 1..MaxThreads : VADD_thread_prepare(t)
    \/ \E t \in 1..MaxThreads : VADD_thread_unlock(t)
    \/ \E t \in 1..MaxThreads : VADD_thread_unblock(t)
    \/ \E t \in 1..MaxThreads, commitOk \in BOOLEAN, ok \in BOOLEAN,
          outcome \in {"fault", "elided"} :
          VADD_CASReply(t, commitOk, ok, outcome)
    \/ \E element \in Labels : VREM_RedisCommand(element)
    \/ VectorSetFree
    \/ HostDEL
    \/ \E encver \in {0, 1}, rejectAt \in {0, 1} :
          RdbReload(encver, 0, rejectAt)

IdSpec == Init /\ [][IdNext]_vars

\* The paths VADD and VSIM take: every combination of CAS, context and
\* thread start on sets of one dimension and quantization, with the
\* background threads and the deletions of the key that run beside them.
PathNext ==
    \/ \E val \in Labels, casopt \in BOOLEAN, ok \in BOOLEAN :
          \E flagged \in IF casopt THEN BOOLEAN ELSE {FALSE} :
             \E started \in IF casopt /\ ~flagged THEN BOOLEAN ELSE {TRUE} :
                VADD_RedisCommand(val, 1, IdDim, NoReduce, "Q8", casopt,
                                  flagged, ok, started)
    \/ \E t \in 1..MaxThreads : VADD_thread_prepare(t)
    \/ \E t \in 1..MaxThreads : VADD_thread_unlock(t)
    \/ \E t \in 1..MaxThreads : VADD_thread_unblock(t)
    \/ \E t \in 1..MaxThreads, commitOk \in BOOLEAN, ok \in BOOLEAN,
          outcome \in {"fault", "elided"} :
          VADD_CASReply(t, commitOk, ok, outcome)
    \/ \E element \in Labels : VREM_RedisCommand(element)
    \/ VectorSetFree
    \/ HostDEL
    \/ \E ele \in Labels, flagged \in BOOLEAN :
          \E started \in IF flagged THEN {TRUE} ELSE BOOLEAN :
             VSIM_RedisCommand("ELE", ele, 0, 0, VSET_DEFAULT_COUNT,
                               DefaultEpsilon, FALSE, flagged, started)
    \/ \E t \in 1..MaxThreads : VSIM_thread_search(t)
    \/ \E t \in 1..MaxThreads, outcome \in {"fault", "garbage"},
          junk \in Labels :
          VSIM_thread_format(t, outcome, junk)
    \/ \E t \in 1..MaxThreads : VSIM_thread_unlock(t)
    \/ \E t \in 1..MaxThreads : VSIM_thread_unblock(t)
    \/ \E t \in 1..MaxThreads : VSIM_Reply(t)

PathSpec == Init /\ [][PathNext]_vars

\* The host delivers the reply of the operation in slot t: it calls the
\* reply callback of a two-phase VADD, or sends what the VSIM thread
\* has accumulated.
ReplyDelivery(t) ==
    \/ \E commitOk \in BOOLEAN, ok \in BOOLEAN,
          outcome \in {"fault", "elided"} :
          VADD_CASReply(t, commitOk, ok, outcome)
    \/ VSIM_Reply(t)

\* PathSpec under fair scheduling: a background thread that can run does
\* run, the controlling thread blocked in pthread_rwlock_wrlock gets the
\* lock once it stays available, and the event loop of the host serves
\* the clients that were unblocked.
FairPathSpec ==
    /\ PathSpec
    /\ \A t \in 1..MaxThreads : WF_vars(ThreadStep(t))
    /\ WF_vars(VectorSetFree)
    /\ \A t \in 1..MaxThreads : WF_vars(ReplyDelivery(t))

\* Every command of the module on a key the host deletes and
\* overwrites: VADD synchronous and two-phase, of vectors of the
\* dimension of the set and of another, VREM, threaded VSIM and the
\* read commands, with the background threads and the reply callbacks.
ReplNext ==
    \/ \E val \in Labels, dim \in Dims, casopt \in BOOLEAN, ok \in BOOLEAN :
          VADD_RedisCommand(val, 1, dim, NoReduce, "Q8", casopt, FALSE, ok,
                            TRUE)
    \/ \E t \in 1..MaxThreads : ThreadStep(t)
    \/ \E t \in 1..MaxThreads : ReplyDelivery(t)
    \/ \E element \in Labels : VREM_RedisCommand(element)
    \/ VectorSetFree
    \/ HostDEL
    \/ HostSET
    \/ \E ele \in Labels :
          VSIM_RedisCommand("ELE", ele, 0, 0, VSET_DEFAULT_COUNT,
                            DefaultEpsilon, FALSE, FALSE, TRUE)
    \/ VDIM_RedisCommand
    \/ VCARD_RedisCommand
    \/ \E element \in Labels : VEMB_RedisCommand(element)
    \/ \E element \in Labels : VLINKS_RedisCommand(element)
    \/ VINFO_RedisCommand

ReplSpec == Init /\ [][ReplNext]_vars

\* The dimension of the vectors added in RdbNext.
RdbDim == 4

\* Sets with and without projection, of every quantization, filled and
\* emptied by VADD and VREM in a script or in MULTI/EXEC, and saved and
\* loaded again: from a sound stream, from one marked with another
\* encoding version, with a damaged vector, or with a node the engine
\* rejects.
RdbNext ==
    \/ \E val \in Labels, vec \in Vectors, reduce_dim \in ReduceDims,
          quant_type \in AllQuantTypes, ok \in BOOLEAN :
          \E matrix, rmatrix \in IF reduce_dim # 0 /\ keyType = "empty"
                                 THEN Matrices ELSE {NULL},
             fault \in IF reduce_dim # 0 /\ keyType = "vset"
                       THEN BOOLEAN ELSE {FALSE} :
             VADD_RedisCommand(val, vec, RdbDim,
                               [reduce_dim |-> reduce_dim,
                                matrix |-> matrix, rmatrix |-> rmatrix,
                                fault |-> fault],
                               quant_type, FALSE, FALSE, ok, TRUE)
    \/ \E element \in Labels : VREM_RedisCommand(element)
    \/ \E encver \in {0, 1}, corruptAt \in 0..Cardinality(Labels),
          rejectAt \in 0..Cardinality(Labels) :
          RdbReload(encver, corruptAt, rejectAt)

RdbSpec == Init /\ [][RdbNext]_vars

\* The dimensions of the raw queries of ProjNext: the dimension of the
\* index of a set with projection, the dimension of its input, one
\* below both and one above both.
QueryDims == {2, 3, 4, 5}

\* The REDUCE dimensions of ProjNext: none, the one the sets with
\* projection get and one no set has.
ProjReduceDims == {0, 2, 3}

\* The REDUCE dimension VADD creates sets with in ProjNext.
ProjCreateDims == {0, 3}

\* Sets with and without projection, created by VADD of vectors of
\* RdbDim components, and searched by VSIM on the controlling thread
\* with ELE queries and raw queries of several dimensions.
ProjNext ==
    \/ \E val \in Labels, vec \in Vectors, ok \in BOOLEAN,
          reduce_dim \in IF keyType = "empty" THEN ProjCreateDims
                         ELSE ProjReduceDims :
          \E matrix, rmatrix \in IF reduce_dim # 0 /\ keyType = "empty"
                                 THEN Matrices ELSE {NULL},
             fault \in IF reduce_dim # 0 /\ keyType = "vset"
                       THEN BOOLEAN ELSE {FALSE} :
             VADD_RedisCommand(val, vec, RdbDim,
                               [reduce_dim |-> reduce_dim,
                                matrix |-> matrix, rmatrix |-> rmatrix,
                                fault |-> fault],
                               "Q8", FALSE, FALSE, ok, TRUE)
    \/ \E element \in Labels : VREM_RedisCommand(element)
    \/ \E qtype \in {"ELE", "VALUES"} :
          \E ele \in IF qtype = "ELE" THEN Labels ELSE {""},
             vec \in IF qtype = "ELE" THEN {0} ELSE QueryVectors,
             dim \in IF qtype = "ELE" THEN {0} ELSE QueryDims :
             VSIM_RedisCommand(qtype, ele, vec, dim, VSET_DEFAULT_COUNT,
                               DefaultEpsilon, FALSE, TRUE, TRUE)
    \/ \E encver \in {0, 1} : RdbReload(encver, 0, 0)

ProjSpec == Init /\ [][ProjNext]_vars

\* The dimensions of the vectors VADD supplies in InputDimNext to a set
\* that exists: the one the set was created from, one below and one
\* above it.
InputDims == {2, 4, 5}

\* Sets created with and without REDUCE from vectors of RdbDim
\* components, then given vectors of other dimensions by VADD and
\* searched with raw queries of several dimensions.
InputDimNext ==
    \/ \E val \in Labels, vec \in Vectors, reduce_dim \in ProjCreateDims,
          ok \in BOOLEAN :
          \E dim \in IF keyType = "empty" THEN {RdbDim} ELSE InputDims,
             matrix, rmatrix \in IF reduce_dim # 0 /\ keyType = "empty"
                                 THEN Matrices ELSE {NULL},
             fault \in IF reduce_dim # 0 /\ keyType = "vset"
                       THEN BOOLEAN ELSE {FALSE} :
             VADD_RedisCommand(val, vec, dim,
                               [reduce_dim |-> reduce_dim,
                                matrix |-> matrix, rmatrix |-> rmatrix,
                                fault |-> fault],
                               "Q8", FALSE, FALSE, ok, TRUE)
    \/ \E element \in Labels : VREM_RedisCommand(element)
    \/ \E vec \in QueryVectors, dim \in QueryDims :
          VSIM_RedisCommand("VALUES", "", vec, dim, VSET_DEFAULT_COUNT,
                            DefaultEpsilon, FALSE, TRUE, TRUE)

InputDimSpec == Init /\ [][InputDimNext]_vars

\* ------------------------------------------------------------ properties
\* The elements the primary holds at the key.
PrimaryElements == IF keyType = "vset" THEN Elements(objs[keyObj]) ELSE {}

\* The nodes of o's graph that carry label l.
NodesOf(o, l) == {n \in o.hnsw.nodes : n.value = l}

\* The map and the graph of o agree entry by entry and node by node.
LockStep(o) ==
    /\ \A e \in o.dict :
          Cardinality({n \in o.hnsw.nodes :
                          n.id = e.node /\ n.value = e.key}) = 1
    /\ \A n \in o.hnsw.nodes :
          Cardinality({e \in o.dict : e.node = n.id}) = 1
    /\ DictSize(o.dict) = hnsw_node_count(o.hnsw)

\* C1: after any sequence of VADD (synchronous or two-phase) and VREM on
\* the key, the identifier map and the graph of the set bound to the key
\* are in lock-step: every label of the map refers to exactly one live
\* node carrying that label, every live node has exactly one map entry,
\* and the map size equals the node count.
C1_MapGraphLockStep == keyType = "vset" => LockStep(objs[keyObj])

\* A thread that has not yet released the read lock it runs under.
HoldsLock(th) ==
    \/ th.kind = "vadd" /\ th.pc \in {"prepare", "unlock"}
    \/ th.kind = "vsim" /\ th.pc \in {"search", "format", "unlock"}

\* C2: a vector set is never torn down while a background thread still
\* holds its read lock: as long as a VSIM or VADD thread has not released
\* the lock, the object it works on is live (VectorSetFree has not
\* completed on it), is the object the thread started on, and counts the
\* thread among its readers; so no thread reads the graph of a released
\* set.
C2_NoTeardownWhileInUse ==
    \A t \in Threads :
        HoldsLock(threads[t]) =>
            /\ objs[threads[t].vset].live
            /\ objs[threads[t].vset].readers > 0
            /\ threads[t].kind = "vadd" =>
                   objs[threads[t].vset].id = threads[t].vset_id

\* C2, the case: the destruction of a set was requested while a
\* background thread holds its read lock, and waits.
C2_Witness ==
    /\ mainPc = "wrlock"
    /\ \E t \in Threads :
          HoldsLock(threads[t]) /\ threads[t].vset = pending.obj

\* The step is the reply callback of the two-phase VADD in slot t.
CASReplyStep(t) ==
    /\ Running
    /\ threads[t].kind = "vadd" /\ threads[t].pc = "reply"
    /\ threads'[t] # threads[t] \/ crashed' = "VADD_CASReply"

\* C3: in the commit step of a two-phase VADD, if the key holds a vector
\* set whose identity tag differs from the tag captured before the
\* background phase, the prepared context is discarded, the new set is
\* left completely unchanged, the client receives the success reply, and
\* the commit step completes normally.
C3_StaleIdentityDiscarded ==
    [][\A t \in Threads :
          (/\ CASReplyStep(t)
           /\ keyType = "vset"
           /\ objs[keyObj].id # threads[t].vset_id)
          => /\ crashed' = ""
             /\ threads'[t] = NoThread
             /\ reply' = Reply("VADD_CAS", "1")
             /\ UNCHANGED <<keyType, keyObj, objs>>]_vars

\* C4: in the commit step of a two-phase VADD, if the key no longer
\* exists or holds a value that is not a vector set, the prepared context
\* is discarded, nothing in the key space is created or modified, nothing
\* is replicated, and the client receives the reply 1, not an error.
C4_MissingKeyDiscarded ==
    [][\A t \in Threads :
          (CASReplyStep(t) /\ keyType # "vset")
          => /\ threads'[t] = NoThread
             /\ reply' = Reply("VADD_CAS", "1")
             /\ replicated' = NoCmd
             /\ UNCHANGED <<keyType, keyObj, objs, replica, crashed>>]_vars

\* C4, the case: a commit step has just replied while the key is gone or
\* holds another type.
C4_Witness ==
    /\ reply = Reply("VADD_CAS", "1")
    /\ keyType \in {"empty", "other"}
    /\ replicated = NoCmd

\* The step is the reply callback of the two-phase VADD in slot t, and
\* the key holds the very set the operation started on.
SameSetCommit(t) ==
    /\ CASReplyStep(t)
    /\ keyType = "vset"
    /\ objs[keyObj].id = threads[t].vset_id

\* Label l is in o exactly once: one node carries it and the one map
\* entry of l refers to that node.
ExactlyOnce(o, l) ==
    /\ Cardinality(NodesOf(o, l)) = 1
    /\ Cardinality({e \in o.dict : e.key = l}) = 1
    /\ \E n \in NodesOf(o, l) : DictGet(o.dict, l) = n.id

\* C5: first writer wins: when the label was inserted into the same set
\* by another operation during the background phase, the later commit is
\* a no-op that keeps the first writer's node and vector; and after every
\* commit step of a two-phase VADD on the same set there is exactly one
\* node and one map entry for its label.
C5_FirstWriterWins ==
    [][\A t \in Threads :
          SameSetCommit(t)
          => /\ DictGet(objs[keyObj].dict, threads[t].val) # NULL
                  => UNCHANGED objs
             /\ ExactlyOnce(objs'[keyObj], threads[t].val)]_vars

\* C6: when all three commit checks of a two-phase VADD pass (the key
\* holds a vector set, it is the set the operation started on, the label
\* is not in it), the label ends up in the set exactly once, whether the
\* prepared context is committed or the insert is redone from scratch;
\* the map gains the entry and the command is replicated.
C6_CommitInsertsOnce ==
    [][\A t \in Threads :
          (/\ SameSetCommit(t)
           /\ DictGet(objs[keyObj].dict, threads[t].val) = NULL)
          => /\ ExactlyOnce(objs'[keyObj], threads[t].val)
             /\ DictSize(objs'[keyObj].dict) > DictSize(objs[keyObj].dict)
             /\ replicated' = threads[t].argv
             /\ reply' = Reply("VADD_CAS", "1")]_vars

\* The step changes the contents stored at the key, and not by losing a
\* label in a VADD whose reinsertion failed in the engine.
SuccessfulChange ==
    /\ PrimaryElements' # PrimaryElements
    /\ reply'.cmd = "VADD" =>
          \A e \in PrimaryElements :
              \E f \in PrimaryElements' : f.key = e.key

\* C7: every VADD or VREM that successfully changes the stored contents
\* of the vector set (a new label, a new vector for a present label, a
\* removed label, a committed two-phase insert) is replicated verbatim:
\* the command that changed the contents replicates when it completes.
C7_ChangesReplicated ==
    [][/\ (SuccessfulChange /\ mainPc' = "idle") => replicated' # NoCmd
       /\ (mainPc = "wrlock" /\ mainPc' = "idle") => replicated' # NoCmd]_vars

\* C8: a replica that applies, in order, exactly the commands the primary
\* replicated holds, whenever the primary is between commands, the same
\* labels as the primary and for every label the same latest vector.
C8_ReplicaConverges == mainPc = "idle" => replica.m = PrimaryElements

\* The step is a step of a background thread.
BackgroundStep == \E t \in Threads : ThreadStep(t)

\* The step leaves the graph and the map of every object as they were.
GraphMapUnchanged ==
    /\ Len(objs') = Len(objs)
    /\ \A a \in DOMAIN objs :
          objs'[a].hnsw = objs[a].hnsw /\ objs'[a].dict = objs[a].dict

\* C9: every mutation of a graph or of an identifier map is performed on
\* the controlling thread, one command at a time: a step of VADD_thread
\* or VSIM_thread never changes a graph or a map, and a step that changes
\* one starts or ends with the controlling thread between commands and
\* advances no background thread.
C9_MutationsOnControllingThread ==
    [][/\ BackgroundStep => GraphMapUnchanged
       /\ ~GraphMapUnchanged =>
             /\ mainPc = "idle" \/ mainPc' = "idle"
             /\ \A t \in Threads :
                   threads'[t] = threads[t] \/ threads[t].pc = "reply"]_vars

\* C9, the case: a two-phase VADD is past its preparation and the graph
\* it prepared against was mutated by a command in the meantime.
C9_Witness ==
    \E t \in Threads :
        /\ threads[t].kind = "vadd"
        /\ threads[t].pc \in {"unlock", "unblock", "reply"}
        /\ objs[threads[t].vset].live
        /\ objs[threads[t].vset].hnsw.version # threads[t].ic

\* C10: teardown never deadlocks: under fair scheduling of background
\* threads, a destruction that started with in-flight background
\* operations (the controlling thread waits for the write lock while
\* readers hold the lock) eventually completes.
C10_TeardownCompletes ==
    (mainPc = "wrlock" /\ objs[pending.obj].readers > 0) ~> (mainPc = "idle")

\* ------------------------------------------- properties of the commands
\* The step is a VADD of label val with the vector vec of dim components
\* and the quantization quant_type, run on the controlling thread.
VADDStep(val, vec, dim, quant_type) ==
    \E ok \in BOOLEAN :
        VADD_RedisCommand(val, vec, dim, NoReduce, quant_type, FALSE, FALSE, ok, TRUE)

\* The set at the key has the label: its map gives a node for it.
Present(l) == keyType = "vset" /\ DictGet(objs[keyObj].dict, l) # NULL

\* C11: VCARD counts the distinct labels inserted and not removed: a VADD
\* that inserts a new label (it replies 1) raises what VCARD returns by
\* exactly 1, a VADD of a label that is not new (it replies 0) leaves it
\* as it is, and a VREM of a present label lowers it by exactly 1, after
\* which VEMB of that label returns null.
C11_CardinalityCountsLabels ==
    [][/\ reply' = Reply("VADD", "1")
             => VCARD_Reply'.num = VCARD_Reply.num + 1
       /\ (keyType = "vset" /\ reply' = Reply("VADD", "0"))
             => VCARD_Reply'.num = VCARD_Reply.num
       /\ \A l \in Labels :
             (VREM_RedisCommand(l) /\ Present(l))
             => /\ VCARD_Reply'.num = VCARD_Reply.num - 1
                /\ VEMB_Reply(l)'.val = "NULL"]_vars

\* C12: a VADD of an already present label (same dimension and
\* quantization as the set) is an update: what VCARD returns does not
\* change, the graph has exactly one node for the label afterwards, and
\* VEMB of the label returns the vector of this VADD, not the old one.
C12_UpdateKeepsOneNode ==
    [][\A l \in Labels, vec \in Vectors, dim \in Dims,
          quant_type \in AllQuantTypes :
          (/\ VADDStep(l, vec, dim, quant_type)
           /\ Present(l)
           /\ objs[keyObj].hnsw.vector_dim = dim
           /\ objs[keyObj].hnsw.quant_type = quant_type)
          => /\ VCARD_Reply'.num = VCARD_Reply.num
             /\ Cardinality(NodesOf(objs'[keyObj], l)) = 1
             /\ VEMB_Reply(l)'.val = "VECTOR"
             /\ VEMB_Reply(l)'.num = vec]_vars

\* C13: between commands the key is never bound to a vector set with
\* zero elements: a set that has lost its last element, or that did not
\* get its first one, is not left at the key.
C13_NoEmptySetAtKey ==
    (mainPc = "idle" /\ keyType = "vset")
        => /\ Elements(objs[keyObj]) # {}
           /\ hnsw_node_count(objs[keyObj].hnsw) > 0

\* The step leaves the key, every set, and the replica as they were and
\* replicates nothing.
NothingChanged ==
    /\ UNCHANGED <<keyType, keyObj, objs, replica>>
    /\ replicated' = NoCmd
    /\ VCARD_Reply' = VCARD_Reply

\* C14: the quantization of a vector set never changes once the set is
\* created, and a VADD that asks for another quantization than the one of
\* the existing set is rejected with an error: the set, its cardinality
\* and the replication stream stay as they were.
C14_QuantizationFixed ==
    [][/\ \A a \in DOMAIN objs :
             (objs[a].live /\ objs'[a].live)
             => objs'[a].hnsw.quant_type = objs[a].hnsw.quant_type
       /\ \A l \in Labels, vec \in Vectors, dim \in Dims,
             quant_type \in AllQuantTypes :
             (/\ VADDStep(l, vec, dim, quant_type)
              /\ keyType = "vset"
              /\ objs[keyObj].hnsw.quant_type # quant_type)
             => /\ reply' = Reply("VADD", "ERR quantization")
                /\ NothingChanged]_vars

\* C14, the case: a VADD was just rejected for its quantization by a set
\* that has elements.
C14_Witness ==
    /\ reply = Reply("VADD", "ERR quantization")
    /\ keyType = "vset"
    /\ hnsw_node_count(objs[keyObj].hnsw) > 0

\* C15: a VADD into an existing set whose vector has another dimension
\* than the set is rejected with an error before any mutation: the set is
\* unchanged and nothing is replicated.
C15_DimensionMismatchRejected ==
    [][\A l \in Labels, vec \in Vectors, dim \in Dims,
          quant_type \in AllQuantTypes :
          (/\ VADDStep(l, vec, dim, quant_type)
           /\ keyType = "vset"
           /\ objs[keyObj].hnsw.vector_dim # dim)
          => /\ reply'.cmd = "VADD"
             /\ reply'.val = IF objs[keyObj].hnsw.quant_type # quant_type
                             THEN "ERR quantization" ELSE "ERR dimension"
             /\ NothingChanged]_vars

\* C15, the case: a VADD of a vector of 3 components was just rejected by
\* a set of dimension 4 that has elements.
C15_Witness ==
    /\ reply = Reply("VADD", "ERR dimension")
    /\ keyType = "vset"
    /\ objs[keyObj].hnsw.vector_dim = 4
    /\ hnsw_node_count(objs[keyObj].hnsw) > 0

\* The commands that do not create the key.
NonCreating == {"VSIM", "VCARD", "VDIM", "VEMB", "VLINKS", "VINFO", "VREM"}

\* The reply is an empty array, a null, or zero.
EmptyResult(r) ==
    \/ r.val \in {"EMPTY_ARRAY", "NULL", "NULL_ARRAY", "0"}
    \/ r.val = "INT" /\ r.num = 0

\* The step is a command of the module started between commands.
CommandStep == mainPc = "idle" /\ ncmds' = ncmds + 1

\* Every command on a key of another type replies the wrong-type error
\* and changes nothing.
WrongTypeRejected ==
    (CommandStep /\ keyType = "other")
    => /\ reply'.val = "WRONGTYPE"
       /\ keyType' = "other"
       /\ NothingChanged

\* C20: every command addressed to a non-existent key that does not
\* create it (VSIM, VCARD, VDIM, VEMB, VLINKS, VINFO, VREM) replies with
\* an empty, null or zero result, never with an error, and the key stays
\* non-existent; on a key of another type every command replies the
\* wrong-type error and changes nothing.
C20_MissingKeyNeverError ==
    [][/\ (CommandStep /\ keyType = "empty" /\ reply'.cmd \in NonCreating)
          => /\ EmptyResult(reply')
             /\ keyType' = "empty"
             /\ NothingChanged
       /\ WrongTypeRejected]_vars

\* C20 as the code has it: on a non-existent key VSIM, VCARD, VEMB,
\* VLINKS, VINFO and VREM reply with an empty, null or zero result and
\* VDIM replies the error "ERR key does not exist"; none of them creates
\* the key; on a key of another type every command replies the wrong-type
\* error and changes nothing.
C20_MissingKeyReplies ==
    [][/\ (CommandStep /\ keyType = "empty" /\ reply'.cmd \in NonCreating)
          => /\ IF reply'.cmd = "VDIM"
                THEN reply' = Reply("VDIM", "ERR key does not exist")
                ELSE EmptyResult(reply')
             /\ keyType' = "empty"
             /\ NothingChanged
       /\ WrongTypeRejected]_vars

\* C20, the case: VDIM has just replied its error on a non-existent key.
C20_Witness ==
    /\ reply = Reply("VDIM", "ERR key does not exist")
    /\ keyType = "empty"
    /\ ncmds > 0

\* The step is the commit of the two-phase VADD in slot t run in
\* isolation: the key holds the set the operation started on, a set with
\* elements, the graph is the one the thread prepared against, and the
\* label is not in the map.
IsolatedCommit(t) ==
    /\ SameSetCommit(t)
    /\ Elements(objs[keyObj]) # {}
    /\ threads[t].ic = objs[keyObj].hnsw.version
    /\ ~DictHas(objs[keyObj].dict, threads[t].val)

\* The set o2, the reply value v and the replicated command c are what a
\* synchronous VADD of vec and val on the set o gives, the engine
\* producing a node or not (ok).
AsSynchronous(o, vec, val, argv, ok, o2, v, c) ==
    LET r == vectorSetInsert(o, vec, val, TRUE, ok) IN
    /\ Elements(o2) = Elements(r.o)
    /\ hnsw_node_count(o2.hnsw) = hnsw_node_count(r.o.hnsw)
    /\ (DictGet(o2.dict, val) # NULL) = (DictGet(r.o.dict, val) # NULL)
    /\ v = (IF r.added = 1 THEN "1" ELSE "0")
    /\ c = (IF r.added = 1 THEN argv ELSE NoCmd)

\* C19: run in isolation on an existing set that does not contain the
\* label, the two-phase VADD ends as the synchronous VADD of the same
\* vector and label would: the same reply to the client, the same labels
\* and vectors, the same cardinality, the label retrievable by VEMB alike,
\* and the same replicated command.
C19_TwoPhaseAsSynchronous ==
    [][\A t \in Threads :
          IsolatedCommit(t)
          => \E ok \in BOOLEAN :
                AsSynchronous(objs[keyObj], threads[t].vec, threads[t].val,
                              threads[t].argv, ok, objs'[keyObj],
                              reply'.val, replicated')]_vars

\* The labels of a reply, in the order they were emitted.
EmittedLabels(r) ==
    LET ix == {i \in 1..Len(r.out) : r.out[i].t = "string"}
    IN [k \in 1..Cardinality(ix) |->
           r.out[CHOOSE i \in ix : Cardinality({j \in ix : j < i}) = k - 1].s]

\* The reply r answers a search that returned res (nodes of h with their
\* distances) under count, epsilon and withscores as C16 says.
PrefixWithinEpsilon(r, h, res, count, epsilon, withscores) ==
    LET labels == EmittedLabels(r)
        n == Len(labels)
    IN /\ n <= count /\ n <= Len(res)
       /\ \A i \in 1..n :
             /\ labels[i] = hnsw_node(h, res[i].id).value
             /\ res[i].dist <= epsilon
       /\ (n < count /\ n < Len(res)) => res[n + 1].dist > epsilon
       /\ r.num = n
       /\ IF withscores
          THEN /\ r.val = "MAP"
               /\ Len(r.out) = 2 * n
               /\ \A i \in 1..n :
                     /\ r.out[2 * i - 1].t = "string"
                     /\ r.out[2 * i] = DoubleToken(4 - res[i].dist)
          ELSE /\ r.val = "ARRAY"
               /\ Len(r.out) = n

\* C16: the reply of VSIM holds at most count results, in the order the
\* engine returned them (increasing distance); it is the longest prefix
\* of the engine's results in which every distance is at most epsilon
\* (the first result beyond epsilon ends it even if others follow); and
\* the declared length of the reply equals the number of labels emitted,
\* with WITHSCORES the number of (label, score) pairs.
C16_ReplyIsPrefixWithinEpsilon ==
    [][(reply'.cmd = "VSIM" /\ reply'.val \in {"ARRAY", "MAP"})
       => \A qtype \in {"ELE", "VALUES"}, count \in Counts,
             epsilon \in Epsilons :
             \A ele \in IF qtype = "ELE" THEN Labels ELSE {""},
                vec \in IF qtype = "ELE" THEN {0} ELSE QueryVectors :
                VSIM_RedisCommand(qtype, ele, vec,
                                  objs[keyObj].hnsw.vector_dim, count,
                                  epsilon, reply'.val = "MAP", TRUE, TRUE)
                => LET h == objs[keyObj].hnsw
                       qvec == IF qtype = "ELE"
                               THEN hnsw_node(h, DictGet(objs[keyObj].dict,
                                                         ele)).vec
                               ELSE vec
                   IN PrefixWithinEpsilon(reply', h,
                          hnsw_search(h, qvec, SearchEf(count, 0)),
                          count, epsilon, reply'.val = "MAP")]_vars

\* C16, the case: VSIM WITHSCORES has just replied one (label, score)
\* pair of a set that holds two elements: COUNT or EPSILON cut the reply.
C16_Witness ==
    /\ reply.cmd = "VSIM" /\ reply.val = "MAP"
    /\ reply.num = 1 /\ Len(reply.out) = 2
    /\ keyType = "vset"
    /\ Cardinality(Elements(objs[keyObj])) = 2

\* The labels of the map of a vector set.
LabelsOf(o) == {e.key : e \in o.dict}

\* The object n holds what the object o holds: dimension, cardinality,
\* quantization, projection, and the labels, each with a node of the
\* graph that stores the same vector.
SameContents(o, n) ==
    /\ n.hnsw.vector_dim = o.hnsw.vector_dim
    /\ hnsw_node_count(n.hnsw) = hnsw_node_count(o.hnsw)
    /\ n.hnsw.quant_type = o.hnsw.quant_type
    /\ (n.proj_matrix = NULL) = (o.proj_matrix = NULL)
    /\ n.proj_input_size = o.proj_input_size
    /\ n.proj_matrix = o.proj_matrix
    /\ LabelsOf(n) = LabelsOf(o)
    /\ \A e \in n.dict : hnsw_has_node(n.hnsw, e.node)
    /\ Elements(n) = Elements(o)

\* C17: loading what VectorSetRdbSave wrote for a vector set gives a
\* vector set with the same dimension, cardinality, quantization and
\* projection (presence, input dimension, matrix) and the same labels,
\* each mapped to a node with the same stored vector; the load reads the
\* whole stream and as many nodes as the element count saved.
C17_RoundTrip ==
    [][RdbReload(0, 0, 0) =>
          LET vset == objs[keyObj]
              io == VectorSetRdbSave(vset)
              r == VectorSetRdbLoad(io, 0, VectorSetTypeNextId, 0)
          IN /\ keyType' = "vset"
             /\ SameContents(vset, objs'[keyObj'])
             /\ r.read = Len(io)
             /\ r.nodes = LoadUnsigned(io[2])]_vars

\* The load of the step fails: the stream is marked with another
\* encoding version than 0, the vector of one of its nodes does not have
\* the length of the vectors of the set, or the engine rejects one of its
\* nodes.
LoadFails(encver, corruptAt, rejectAt) ==
    LET saved == hnsw_node_count(objs[keyObj].hnsw) IN
    \/ encver # 0
    \/ corruptAt \in 1..saved
    \/ rejectAt \in 1..saved

\* C18: a load fails as a whole and returns no object when the encoding
\* version is not 0, when the vector of a node has another length than
\* the quantized size, or when the engine rejects a serialized node: no
\* object becomes the value of the key, and an object that does holds
\* every saved node.
C18_LoadFailsAsAWhole ==
    [][\A encver \in {0, 1}, corruptAt, rejectAt \in 0..Cardinality(Labels) :
          RdbReload(encver, corruptAt, rejectAt) =>
             /\ LoadFails(encver, corruptAt, rejectAt) =>
                   keyType' = "empty" /\ keyObj' = 0
             /\ keyType' = "vset" =>
                   /\ ~LoadFails(encver, corruptAt, rejectAt)
                   /\ hnsw_node_count(objs'[keyObj'].hnsw)
                         = hnsw_node_count(objs[keyObj].hnsw)]_vars

\* A load has failed after it put a node into the object it was
\* building, and the key holds no object.
C18_Witness ==
    /\ reply = Reply("RELOAD", "ERR")
    /\ keyType = "empty"
    /\ \E i \in 1..Len(objs) :
          objs[i].live /\ hnsw_node_count(objs[i].hnsw) > 0

\* The step is VSIM with an ELE query for the label l, run in a script
\* or in MULTI/EXEC.
VSIM_ELE_Step(l) ==
    VSIM_RedisCommand("ELE", l, 0, 0, VSET_DEFAULT_COUNT, DefaultEpsilon, FALSE, TRUE, TRUE)

\* The step is a command that names the label l, run on an existing
\* vector set that does not have it.
NamesAbsentLabel(l) ==
    /\ keyType = "vset"
    /\ ~Present(l)
    /\ \/ VEMB_RedisCommand(l)
       \/ VLINKS_RedisCommand(l)
       \/ VREM_RedisCommand(l)
       \/ VSIM_ELE_Step(l)

\* C21: on an existing vector set, every command that names a label not
\* present in the set (VEMB, VLINKS, VREM, VSIM with an ELE query)
\* replies with a null, zero or empty result, never with an error, and
\* leaves the set unchanged.
C21_AbsentLabelNeverError ==
    [][\A l \in Labels :
          NamesAbsentLabel(l) => EmptyResult(reply') /\ NothingChanged]_vars

\* C21 as the code has it: for a label the set does not have VEMB and
\* VLINKS reply null, VREM replies 0 and VSIM with an ELE query replies
\* the error "ERR element not found in set"; all four leave the set
\* unchanged.
C21_AbsentLabelReplies ==
    [][\A l \in Labels :
          NamesAbsentLabel(l)
          => /\ reply' \in {Reply("VEMB", "NULL"), Reply("VLINKS", "NULL"),
                            Reply("VREM", "0"),
                            Reply("VSIM", "ERR element not found in set")}
             /\ NothingChanged]_vars

\* C21, the case: VSIM with an ELE query has just replied its error on
\* a set that has elements, but not the one named.
C21_Witness ==
    /\ reply = Reply("VSIM", "ERR element not found in set")
    /\ keyType = "vset"
    /\ PrimaryElements # {}
    /\ \E l \in Labels : ~Present(l)

\* VADD of val would take the two-phase path if asked to with CAS
\* outside replication, scripts and transactions: the key holds a vector
\* set that takes the vector and does not have the label.
TwoPhaseDue(val, dim, quant_type) ==
    /\ keyType = "vset"
    /\ VADD_Error(objs[keyObj], dim, 0, quant_type) = ""
    /\ DictGet(objs[keyObj].dict, val) = NULL

\* VSIM with this query and the default options would search: the key
\* holds a vector set that has the label, or the dimension of the vector.
SearchDue(qtype, ele, dim) ==
    /\ keyType = "vset"
    /\ IF qtype = "ELE" THEN DictGet(objs[keyObj].dict, ele) # NULL
       ELSE dim = objs[keyObj].hnsw.vector_dim

\* The step is a two-phase VADD or a threaded VSIM whose thread
\* cannot be started.
ThreadStartFails ==
    \/ \E val \in Labels, vec \in Vectors, dim \in Dims,
          quant_type \in QuantTypes, ok \in BOOLEAN :
          /\ TwoPhaseDue(val, dim, quant_type)
          /\ VADD_RedisCommand(val, vec, dim, NoReduce, quant_type, TRUE, FALSE, ok, FALSE)
    \/ \E qtype \in {"ELE", "VALUES"}, ele \in Labels \cup {""},
          vec \in {0, 1}, dim \in Dims \cup {0} :
          /\ SearchDue(qtype, ele, dim)
          /\ VSIM_RedisCommand(qtype, ele, vec, dim, VSET_DEFAULT_COUNT, DefaultEpsilon, FALSE, FALSE, FALSE)

\* The readers a set counts are the background threads that have not yet
\* released its read lock.
ReadersAreHolders ==
    \A a \in DOMAIN objs :
        objs[a].readers =
            Cardinality({t \in Threads : /\ HoldsLock(threads[t])
                                         /\ threads[t].vset = a})

\* C22: if the background thread of a two-phase VADD or of a threaded
\* VSIM cannot be started, the caller receives an error, the read lock
\* taken for the operation is released, no client stays blocked and the
\* set is unchanged; afterwards the set has no read hold of that
\* operation, so its destruction waits for the threads in flight only.
C22_ThreadStartFailure ==
    [][/\ (CommandStep /\ ThreadStartFails) =>
             /\ reply' \in {Reply("VADD", "ERR thread"),
                            Reply("VSIM", "ERR thread")}
             /\ UNCHANGED <<keyType, keyObj, objs, threads>>
             /\ replicated' = NoCmd
             /\ ReadersAreHolders'
             /\ (\A t \in Threads : ~HoldsLock(threads'[t]))
                   => WrlockGranted(objs'[keyObj'])
       /\ reply'.val = "ERR thread" => ThreadStartFails]_vars

\* C22, the case: the thread of a command could not be started while
\* the thread of another command holds the read lock of the set.
C22_Witness ==
    /\ reply.val = "ERR thread"
    /\ keyType = "vset"
    /\ objs[keyObj].readers = 1
    /\ \E t \in Threads : HoldsLock(threads[t]) /\ threads[t].vset = keyObj

\* The map and the graph of o are in sync: no map entry without a live
\* node carrying its label, and no node without a map entry.
InSync(o) ==
    /\ \A e \in o.dict :
          \E n \in o.hnsw.nodes : n.id = e.node /\ n.value = e.key
    /\ \A n \in o.hnsw.nodes : \E e \in o.dict : e.node = n.id

\* C23: when the engine fails to produce a node during an insert (a new
\* synchronous insert, the reinsertion of an update, or the fallback
\* insert after a failed commit), the map and the graph remain in sync:
\* no step takes a set whose map and graph are in sync to one with a map
\* entry for a label that has no live node, or with a node that has no
\* map entry.
C23_FailedInsertKeepsSync ==
    [][\A a \in DOMAIN objs :
          (objs[a].live /\ InSync(objs[a])) => InSync(objs'[a])]_vars

\* C24: identity tags are unique and strictly increasing in creation
\* order: of two vector sets created by VADD on a new key or by a load,
\* the later one carries the greater tag, every tag is below the
\* counter, and a set other than the one a two-phase VADD started on
\* never carries the tag that VADD captured.
C24_IdentityUnique ==
    /\ \A a \in DOMAIN objs :
          objs[a].live => objs[a].id < VectorSetTypeNextId
    /\ \A a, b \in DOMAIN objs :
          (a < b /\ objs[a].live /\ objs[b].live) => objs[a].id < objs[b].id
    /\ \A t \in Threads :
          threads[t].kind = "vadd" =>
             /\ threads[t].vset_id < VectorSetTypeNextId
             /\ \A a \in DOMAIN objs :
                   (objs[a].live /\ a # threads[t].vset)
                   => objs[a].id # threads[t].vset_id

\* C24, the case: the reply callback of a two-phase VADD is due while
\* the key holds a set created after the one the VADD started on.
C24_Witness ==
    /\ keyType = "vset"
    /\ \E t \in Threads :
          /\ threads[t].kind = "vadd" /\ threads[t].pc = "reply"
          /\ threads[t].vset # keyObj
          /\ objs[keyObj].id > threads[t].vset_id

\* No background thread is started or ended and no read lock is taken
\* or released in the step.
NoBackgroundPhase ==
    /\ threads' = threads
    /\ \A a \in DOMAIN objs : objs'[a].readers = objs[a].readers

\* The step is a VADD of label val with CAS requested, outside
\* replication, scripts and transactions.
VADD_CAS_Step(val, vec, dim, quant_type, ok) ==
    \E started \in BOOLEAN :
        VADD_RedisCommand(val, vec, dim, NoReduce, quant_type, TRUE, FALSE, ok, started)

\* C25: a VADD whose label is present in the set when the command
\* executes never takes the two-phase path, even with CAS requested: no
\* background thread is spawned, the command replies at once, and, if
\* the set takes the vector, the update is made in the same step on the
\* controlling thread.
C25_UpdateIsSynchronous ==
    [][(CommandStep /\ (reply'.cmd = "VADD" \/ threads' # threads)) =>
       \A val \in Labels, vec \in Vectors, dim \in Dims,
          quant_type \in QuantTypes, ok \in BOOLEAN :
          (Present(val) /\ VADD_CAS_Step(val, vec, dim, quant_type, ok))
          => /\ NoBackgroundPhase
             /\ reply'.cmd = "VADD"
             /\ reply'.val # "ERR thread"
             /\ VADD_Error(objs[keyObj], dim, 0, quant_type) = ""
                   => /\ reply'.val = "0"
                      /\ objs'[keyObj] =
                            vectorSetInsert(objs[keyObj], vec, val, TRUE,
                                            ok).o]_vars

\* C25, the case: a VADD has replaced the vector of a label of the set
\* (its node is a later one than the first) with no thread in flight.
C25_Witness ==
    /\ reply = Reply("VADD", "0")
    /\ keyType = "vset"
    /\ \A t \in Threads : threads[t].kind = "none"
    /\ \E e \in objs[keyObj].dict :
          /\ e.node > 1
          /\ e.node = objs[keyObj].hnsw.last_id
          /\ objs[keyObj].hnsw.version = 3

\* The step starts a background thread.
Spawns == \E t \in Threads : threads[t].kind = "none" /\ threads'[t].kind # "none"

Spawned(t) == threads[t].kind = "none" /\ threads'[t].kind # "none"

\* The step is one of the thread in slot t that releases a read lock of
\* the set the thread works on.
Releases(t) ==
    /\ threads[t].kind # "none"
    /\ threads'[t] # threads[t]
    /\ objs'[threads[t].vset].readers = objs[threads[t].vset].readers - 1

\* The thread has called RedisModule_UnblockClient: the reply is due.
Unblocked(th) == th.kind # "none" /\ th.pc = "reply"

\* The step is the call of RedisModule_UnblockClient by the thread in
\* slot t.
Unblocks(t) == ~Unblocked(threads[t]) /\ Unblocked(threads'[t])

\* The step delivers the reply of the operation in slot t.
Delivers(t) == Unblocked(threads[t]) /\ threads'[t].kind = "none"

\* The read lock of the operation in slot t is taken when its thread is
\* started, on the controlling thread and on the set at the key, and no
\* other step than the start and the release of a thread changes the
\* readers a set counts.
LockTakenAtSpawn ==
    /\ \A t \in Threads :
          Spawned(t) =>
             /\ mainPc = "idle"
             /\ threads'[t].vset = keyObj
             /\ objs'[keyObj].readers = objs[keyObj].readers + 1
    /\ \A a \in DOMAIN objs :
          objs'[a].readers # objs[a].readers =>
             \E t \in Threads :
                \/ Spawned(t) /\ threads'[t].vset = a
                \/ Releases(t) /\ threads[t].vset = a

\* C27: the read lock for a background operation is acquired on the
\* controlling thread before the background thread is spawned and is
\* released by the background thread upon completion, right after it has
\* unblocked the waiting client and before the reply is delivered.
C27_ReleasedAfterUnblock ==
    [][/\ LockTakenAtSpawn
       /\ \A t \in Threads :
             /\ Releases(t) => Unblocked(threads[t])
             /\ Delivers(t) =>
                   objs'[threads[t].vset].readers
                      = objs[threads[t].vset].readers]_vars

\* C27 as the code has it: the read lock is acquired on the controlling
\* thread when the background thread is spawned and is released by the
\* background thread upon completion, right before it unblocks the
\* waiting client: the thread releases before the client is unblocked,
\* its next step after the release is the unblocking, it unblocks only
\* after having released, and the delivery of the reply releases nothing.
C27_ReleasedBeforeUnblock ==
    [][/\ LockTakenAtSpawn
       /\ \A t \in Threads :
             /\ Releases(t) =>
                   /\ ~Unblocked(threads[t])
                   /\ threads'[t].pc = "unblock"
                   /\ BackgroundStep
             /\ (threads'[t].pc = "unblock" /\ threads[t].pc # "unblock")
                   => Releases(t)
             /\ Unblocks(t) =>
                   /\ threads[t].pc = "unblock"
                   /\ objs' = objs
             /\ Delivers(t) =>
                   objs'[threads[t].vset].readers
                      = objs[threads[t].vset].readers]_vars

\* C27, the case: a thread has released the read lock of its set and
\* has not yet unblocked its client.
C27_Witness ==
    \E t \in Threads :
        /\ threads[t].kind # "none" /\ threads[t].pc = "unblock"
        /\ objs[threads[t].vset].live
        /\ objs[threads[t].vset].readers = 0

\* The step is a VADD of a vector of RdbDim components with the given
\* arguments, REDUCE included when reduce_dim is not 0.
VADD_Reduce_Step(val, vec, reduce_dim, quant_type, ok) ==
    \E matrix, rmatrix \in Matrices \cup {NULL}, fault \in BOOLEAN :
        VADD_RedisCommand(val, vec, RdbDim,
                          [reduce_dim |-> reduce_dim, matrix |-> matrix,
                           rmatrix |-> rmatrix, fault |-> fault],
                          quant_type, FALSE, FALSE, ok, TRUE)

\* The vector the index of o holds for the label val, NULL without one.
StoredVec(o, val) ==
    IF \E n \in o.hnsw.nodes : n.value = val
    THEN (CHOOSE n \in o.hnsw.nodes : n.value = val).vec
    ELSE NULL

\* C28: on every VADD into a set with projection, at creation and on
\* later inserts, the vector handed to the index is the projection of
\* the input computed with the input dimension of the projection as
\* columns and exactly as many rows as the index has dimensions: no row
\* beyond the output dimension of the matrix is read, the command does
\* not fault in applyProjection, and the vector a new label gets is the
\* projection of the input by the matrix of the set.
C28_ProjectionWithinMatrix ==
    [][CommandStep =>
       \A val \in Labels, vec \in Vectors, reduce_dim \in ReduceDims,
          quant_type \in AllQuantTypes, ok \in BOOLEAN :
          VADD_Reduce_Step(val, vec, reduce_dim, quant_type, ok) =>
             /\ (keyType = "empty" /\ reduce_dim # 0 /\ ok) =>
                   /\ objs'[keyObj'].proj_matrix # NULL
                   /\ objs'[keyObj'].hnsw.vector_dim = reduce_dim
                   /\ StoredVec(objs'[keyObj'], val)
                         = Project(vec, objs'[keyObj'].proj_matrix)
             /\ (/\ keyType = "vset"
                 /\ objs[keyObj].proj_matrix # NULL
                 /\ VADD_Error(objs[keyObj], RdbDim, reduce_dim,
                               quant_type) = "") =>
                   /\ ~VADD_Projected(objs[keyObj], vec, RdbDim).overread
                   /\ crashed' = crashed
                   /\ (ok /\ ~Present(val)) =>
                         StoredVec(objs'[keyObj], val)
                            = Project(vec, objs[keyObj].proj_matrix)]_vars

\* The step is a VSIM with the given query, run on the controlling
\* thread with the default COUNT and EPSILON.
VSIM_Query_Step(qtype, ele, vec, dim) ==
    VSIM_RedisCommand(qtype, ele, vec, dim, VSET_DEFAULT_COUNT,
                      DefaultEpsilon, FALSE, TRUE, TRUE)

\* The VSIM of the step was accepted: it replied a result and the
\* process went on.
QueryAccepted ==
    /\ crashed' = crashed
    /\ reply'.cmd = "VSIM"
    /\ reply'.val \notin {"ERR dimension", "ERR element not found in set"}

\* An ELE query of a label of the set and a raw query of the dimension
\* of the index are searched with as they are.
QueryNotProjected ==
    LET o == objs[keyObj] IN
    /\ \A ele \in Labels :
          (Present(ele) /\ VSIM_Query_Step("ELE", ele, 0, 0)) =>
             /\ VSIM_Query(o, "ELE", DictGet(o.dict, ele), 0, 0).vec
                   = StoredVec(o, ele)
             /\ QueryAccepted
    /\ \A vec \in QueryVectors :
          VSIM_Query_Step("VALUES", "", vec, o.hnsw.vector_dim) =>
             /\ VSIM_Query(o, "VALUES", NULL, vec, o.hnsw.vector_dim).vec
                   = vec
             /\ QueryAccepted

\* A raw query of the input dimension of the projection is projected to
\* the dimension of the index, reading the matrix and the query within
\* their bounds.
QueryProjected ==
    LET o == objs[keyObj] IN
    \A vec \in QueryVectors :
       (/\ o.proj_input_size # o.hnsw.vector_dim
        /\ VSIM_Query_Step("VALUES", "", vec, o.proj_input_size)) =>
          LET q == VSIM_Query(o, "VALUES", NULL, vec, o.proj_input_size)
          IN /\ q.vec = Project(vec, o.proj_matrix)
             /\ q.dim = o.hnsw.vector_dim
             /\ ~q.overread
             /\ QueryAccepted

\* A raw query of neither dimension is rejected with the
\* dimension-mismatch error.
QueryRejected ==
    LET o == objs[keyObj] IN
    \A vec \in QueryVectors, dim \in QueryDims :
       (/\ dim \notin {o.hnsw.vector_dim, o.proj_input_size}
        /\ VSIM_Query_Step("VALUES", "", vec, dim)) =>
          /\ reply'.val = "ERR dimension"
          /\ crashed' = crashed

\* C29: for VSIM on a set with projection, a raw query that is not
\* already in the reduced dimension is projected from the input
\* dimension of the projection to the dimension of the index before the
\* search, while an ELE query and a raw query already of the dimension
\* of the index are not projected; in every accepted case the vector
\* passed to the search has exactly the dimension of the index, and a
\* query that cannot be brought to that dimension is rejected with a
\* dimension-mismatch error.
C29_QueryBroughtToIndexDimension ==
    [][(/\ CommandStep
        /\ keyType = "vset"
        /\ objs[keyObj].proj_matrix # NULL)
       => /\ QueryNotProjected
          /\ QueryProjected
          /\ QueryRejected]_vars

\* Whether the set o has a projection, the input dimension of the
\* projection and the dimension of the index.
ProjectionOf(o) ==
    [present |-> o.proj_matrix # NULL, input_dim |-> o.proj_input_size,
     vector_dim |-> o.hnsw.vector_dim]

\* The errors VADD rejects its arguments with on an existing set.
VADD_Rejections ==
    {"ERR quantization", "ERR dimension", "ERR cannot add projection",
     "ERR projection dimension"}

\* The step is a VADD of a vector of RdbDim components to be quantized
\* Q8, REDUCE given when reduce_dim is not 0.
VADD_Q8_Step(val, vec, reduce_dim, ok) ==
    VADD_Reduce_Step(val, vec, reduce_dim, "Q8", ok)

\* A set created by VADD has a projection if and only if REDUCE was
\* given, from the dimension of the vector to the REDUCE dimension.
ProjectionFromReduce ==
    (CommandStep /\ keyType = "empty" /\ keyType' = "vset") =>
       \A val \in Labels, vec \in Vectors, reduce_dim \in ProjCreateDims,
          ok \in BOOLEAN :
          VADD_Q8_Step(val, vec, reduce_dim, ok) =>
             ProjectionOf(objs'[keyObj']) =
                IF reduce_dim # 0
                THEN [present |-> TRUE, input_dim |-> RdbDim,
                      vector_dim |-> reduce_dim]
                ELSE [present |-> FALSE, input_dim |-> 0,
                      vector_dim |-> RdbDim]

\* A set that is loaded has a projection if and only if the stream has
\* the projection flag set.
ProjectionFromFlag ==
    (reply'.cmd = "RELOAD" /\ reply'.val = "OK" /\ ncmds' = ncmds + 1) =>
       LET io == VectorSetRdbSave(objs[keyObj])
       IN /\ ProjectionOf(objs'[keyObj']).present
                = (LoadUnsigned(At(io, 4)) # 0)
          /\ ProjectionOf(objs'[keyObj']).present =>
                /\ objs'[keyObj'].proj_input_size = LoadUnsigned(At(io, 5))
                /\ objs'[keyObj'].proj_matrix
                      = LoadStringBuffer(At(io, 6)).data

\* A VADD with REDUCE on a set without projection, or with another
\* REDUCE dimension than the dimension of the set, is rejected with an
\* error and changes nothing.
ReduceRejected ==
    (CommandStep /\ keyType = "vset") =>
       \A val \in Labels, vec \in Vectors, ok \in BOOLEAN,
          reduce_dim \in ProjReduceDims \ {0} :
          (/\ \/ objs[keyObj].proj_matrix = NULL
              \/ reduce_dim # objs[keyObj].hnsw.vector_dim
           /\ VADD_Q8_Step(val, vec, reduce_dim, ok)) =>
             /\ reply'.cmd = "VADD"
             /\ reply'.val \in VADD_Rejections
             /\ objs' = objs
             /\ keyType' = keyType /\ keyObj' = keyObj
             /\ crashed' = crashed

\* C30: a vector set has a projection matrix if and only if it was
\* created by a VADD with REDUCE or loaded with the projection flag set;
\* presence, input dimension and index dimension never change
\* afterwards: a later VADD with REDUCE on a set without projection, or
\* with a REDUCE dimension different from the dimension of the set, is
\* rejected with an error and leaves the set unchanged.
C30_ProjectionFixedAtCreation ==
    [][/\ ProjectionFromReduce
       /\ ProjectionFromFlag
       /\ \A a \in DOMAIN objs :
             objs'[a].live => ProjectionOf(objs'[a]) = ProjectionOf(objs[a])
       /\ ReduceRejected]_vars

\* C30, the case: a VADD with REDUCE was rejected on a set that holds
\* an element and has no projection.
C30_Witness ==
    /\ keyType = "vset"
    /\ objs[keyObj].proj_matrix = NULL
    /\ objs[keyObj].dict # {}
    /\ reply.cmd = "VADD"
    /\ reply.val = "ERR cannot add projection"

\* The step is the reply loop of the VSIM in slot t: the thread leaves
\* the loop or the process faults in it.
FormatsReply(t) ==
    /\ threads[t].kind = "vsim" /\ threads[t].pc = "format"
    /\ \/ threads'[t].pc # "format"
       \/ crashed' # crashed

\* The positions of the search result of the thread th the reply loop
\* reads the value of: those it replies with.
Dereferenced(th) ==
    1..VSIM_execute(NodeValues(objs[th.vset].hnsw, th.found, ""),
                    Distances(th.found), th.count, th.epsilon,
                    th.withscores).num

\* C31: a background VSIM never reads a graph node that was deleted and
\* released by a VREM or an update VADD run on the controlling thread
\* while the search thread was running: every node the reply loop reads
\* the value of is still in the graph of the set, and the process does
\* not fault in the loop.
C31_NoReadOfDeletedNode ==
    [][\A t \in Threads :
          FormatsReply(t) =>
             /\ \A i \in Dereferenced(threads[t]) :
                   hnsw_has_node(objs[threads[t].vset].hnsw,
                                 threads[t].found[i].id)
             /\ crashed' = crashed]_vars

\* The background operations on the set at a that were started and have
\* not yet come to the end of their work on the set.
InFlightOn(a) ==
    {t \in Threads : HoldsLock(threads[t]) /\ threads[t].vset = a}

\* The read holds of every set are its operations in flight, and a set
\* that was released by VectorSetFree, which alone takes the write
\* lock, has none of either.
ReadHoldsAreOperations ==
    \A a \in DOMAIN objs :
        /\ objs[a].readers = Cardinality(InFlightOn(a))
        /\ ~objs[a].live => objs[a].readers = 0

\* An operation takes its read hold once, when it is started, and gives
\* it back once, before it ends: a step changes the holds of a set by
\* the one of an operation it starts or of the thread it advances, a
\* thread that has released does not hold again, and an operation that
\* ends holds nothing.
HoldOncePerOperation ==
    /\ \A a \in DOMAIN objs :
          objs'[a].readers # objs[a].readers =>
             \E t \in Threads :
                \/ /\ Spawned(t) /\ threads'[t].vset = a
                   /\ objs'[a].readers = objs[a].readers + 1
                \/ /\ Releases(t) /\ threads[t].vset = a
                   /\ HoldsLock(threads[t]) /\ ~HoldsLock(threads'[t])
    /\ \A t \in Threads :
          /\ Spawned(t) => HoldsLock(threads'[t])
          /\ (threads[t].kind # "none" /\ ~HoldsLock(threads[t]))
                => ~HoldsLock(threads'[t])
          /\ (threads[t].kind # "none" /\ threads'[t].kind = "none")
                => ~HoldsLock(threads[t])
    /\ (\E a \in DOMAIN objs : objs[a].live /\ ~objs'[a].live)
          => /\ mainPc = "wrlock" \/ reply'.cmd = "RELOAD"
             /\ \A a \in DOMAIN objs :
                   (objs[a].live /\ ~objs'[a].live) => objs[a].readers = 0

\* C32: in every reachable state the number of read holds on the
\* lifetime lock of a vector set equals the number of background
\* operations on that set (two-phase VADD preparations and threaded VSIM
\* searches) that have been started and have not yet finished; each
\* operation acquires the lock exactly once and releases it exactly once
\* on every path, and the write lock is taken only in VectorSetFree, on
\* a set without read holds.
C32_ReadHoldsBalanced ==
    []ReadHoldsAreOperations /\ [][HoldOncePerOperation]_vars

\* C32, the case: a set has two read holds, of a two-phase VADD and of
\* a threaded VSIM in flight.
C32_Witness ==
    \E a \in DOMAIN objs :
        /\ objs[a].readers = 2
        /\ \E t, u \in InFlightOn(a) :
              threads[t].kind = "vadd" /\ threads[u].kind = "vsim"

\* The client of the operation in slot t is blocked or waits for its
\* reply.
ClientWaits(t) == threads[t].kind # "none"

\* C33: every client blocked by a threaded VSIM or by a two-phase VADD
\* is eventually released and receives its reply, under fair scheduling
\* of the background threads, whether the key is deleted, replaced or
\* modified while the operation is in flight or not.
C33_BlockedClientReplied ==
    \A t \in Threads : ClientWaits(t) ~> ~ClientWaits(t)

\* The step leaves every vector set as it was: the graphs, the maps and
\* what the key holds.
SetsUnchanged ==
    /\ GraphMapUnchanged
    /\ keyType' = keyType
    /\ keyObj' = keyObj

\* The step replicates nothing and leaves every vector set as it was.
NotReplicated == replicated' = NoCmd /\ replica' = replica /\ SetsUnchanged

\* The read commands of the module.
ReadCommands == {"VSIM", "VCARD", "VDIM", "VEMB", "VLINKS", "VINFO"}

\* The step is the reply callback of a two-phase VADD that discards the
\* prepared insertion: the key holds no vector set any more, or the set
\* has the label by now.
CommitDiscarded ==
    \E t \in Threads :
        /\ CASReplyStep(t)
        /\ crashed' = crashed
        /\ keyType # "vset" \/ Present(threads[t].val)

\* C34: a command that leaves every vector set unchanged is never
\* replicated: a step that replicates a VADD or a VREM has changed a
\* graph, a map or what the key holds, and a two-phase VADD whose commit
\* is discarded, a VREM of an absent label or key, a VADD rejected with
\* a validation or wrong-type error and every read command produce no
\* replication output and modify neither the identifier map nor the
\* graph.
C34_UnchangedNotReplicated ==
    [][/\ (replicated'.cmd \in {"VADD", "VREM"}) => ~SetsUnchanged
       /\ CommitDiscarded => NotReplicated
       /\ reply' = Reply("VREM", "0") => NotReplicated
       /\ (reply'.cmd = "VADD"
             /\ reply'.val \in VADD_Rejections \cup {"WRONGTYPE"})
             => NotReplicated
       /\ reply'.cmd \in ReadCommands => NotReplicated]_vars

\* The step is a VADD of a vector of dim components to be quantized Q8,
\* with the REDUCE dimension reduce_dim (0: none).
VADD_Dim_Step(val, vec, dim, reduce_dim, ok) ==
    \E matrix, rmatrix \in Matrices \cup {NULL}, fault \in BOOLEAN :
        VADD_RedisCommand(val, vec, dim,
                          [reduce_dim |-> reduce_dim, matrix |-> matrix,
                           rmatrix |-> rmatrix, fault |-> fault],
                          "Q8", FALSE, FALSE, ok, TRUE)

\* The command of the step was rejected with a validation error, nothing
\* was read beyond a buffer and the sets are as they were.
RejectedUnchanged ==
    /\ reply'.val \in VADD_Rejections
    /\ crashed' = crashed
    /\ objs' = objs
    /\ keyType' = keyType /\ keyObj' = keyObj
    /\ replicated' = NoCmd

\* C35: on a set with projection, a VADD or a raw VSIM query whose
\* vector has another dimension than the input dimension of the
\* projection is rejected with a validation error before the projection
\* is applied: the projection never reads more components than the
\* vector has, and the set is unchanged.
C35_InputDimensionChecked ==
    [][(/\ CommandStep
        /\ keyType = "vset"
        /\ objs[keyObj].proj_matrix # NULL)
       => /\ \A val \in Labels, vec \in Vectors, dim \in InputDims,
                reduce_dim \in ProjCreateDims, ok \in BOOLEAN :
                (/\ dim # objs[keyObj].proj_input_size
                 /\ VADD_Dim_Step(val, vec, dim, reduce_dim, ok))
                => RejectedUnchanged
          /\ \A vec \in QueryVectors, dim \in QueryDims :
                (/\ dim # objs[keyObj].proj_input_size
                 /\ VSIM_Query_Step("VALUES", "", vec, dim))
                => RejectedUnchanged]_vars

====
